---------------------------- MODULE Spec2Model ----------------------------
(***************************************************************************)
(* A model of disgo-tui: the OAuth client start-up (internal/client),      *)
(* the encrypted token storage, and the terminal UI (internal/tui).        *)
(*                                                                         *)
(* Strings are sequences of bytes (0..255), as Go strings are.  Eight      *)
(* specifications share the variables:                                     *)
(*   Spec         client.NewWithContext, the callback server and handlers  *)
(*   SpecCrypto   saveTokensSecurely / loadTokensSecurely as functions     *)
(*   SpecStorage  NewWithContext over storage files it cannot use          *)
(*   SpecTui      tui.New, Start, the keys, the first load, the redraws    *)
(*   SpecRefresh  tui.New, Start / StartWithContext, the ticker, the loads *)
(*   SpecStartup  tui.New and Start under fair scheduling                  *)
(*   SpecCards    one LoadDataWithContext: the three lists, card by card   *)
(*   SpecMap      dto.MapCollectionReleases / MapWishlistReleases          *)
(***************************************************************************)
EXTENDS Integers, Sequences, FiniteSets, TLC

-----------------------------------------------------------------------------
(* Bytes and strings                                                       *)

EmptyStr == << >>

RECURSIVE WeightedSum(_, _)
WeightedSum(s, i) ==
    IF i > Len(s) THEN 0 ELSE (i * s[i] + WeightedSum(s, i + 1)) % 256

\* A one-byte digest of a byte string; stands for the mixing AES-GCM does.
Digest(s) == WeightedSum(s, 1)

-----------------------------------------------------------------------------
(* generateKey: the consumer secret cut or zero-padded to 32 bytes.        *)

KeyLen == 32

generateKey(consumerSecretKey) ==
    IF Len(consumerSecretKey) > KeyLen
        THEN SubSeq(consumerSecretKey, 1, KeyLen)
        ELSE IF Len(consumerSecretKey) < KeyLen
            THEN consumerSecretKey \o [i \in 1..(KeyLen - Len(consumerSecretKey)) |-> 0]
            ELSE consumerSecretKey

-----------------------------------------------------------------------------
(* AES-256-GCM, abstracted to a keyed, nonce-dependent byte cipher with a  *)
(* 16-byte authentication tag: Open fails unless key, nonce and ciphertext *)
(* are the ones Seal used.                                                 *)

NonceSize == 12

TagSize == 16

\* The i-th keystream byte under the digests of key and nonce.
KeyStream(kd, nd, i) == (kd + 3 * nd + 7 * i) % 256

GcmTag(kd, nd, body) ==
    LET bd == Digest(body)
    IN  [j \in 1..TagSize |-> (kd + 5 * nd + 11 * bd + 13 * Len(body) + j) % 256]

\* gcm.Seal(dst, nonce, plaintext, nil): dst followed by ciphertext and tag.
GcmSeal(dst, key, nonce, plaintext) ==
    LET kd   == Digest(key)
        nd   == Digest(nonce)
        body == [i \in 1..Len(plaintext) |->
                    (plaintext[i] + KeyStream(kd, nd, i)) % 256]
    IN  dst \o body \o GcmTag(kd, nd, body)

\* gcm.Open(nil, nonce, ciphertext, nil): the plaintext, or an error.
GcmOpen(key, nonce, ciphertext) ==
    IF Len(ciphertext) < TagSize
        THEN [err |-> TRUE, val |-> << >>]
        ELSE LET kd   == Digest(key)
                 nd   == Digest(nonce)
                 n    == Len(ciphertext) - TagSize
                 body == SubSeq(ciphertext, 1, n)
                 tag  == SubSeq(ciphertext, n + 1, Len(ciphertext))
             IN  IF tag # GcmTag(kd, nd, body)
                     THEN [err |-> TRUE, val |-> << >>]
                     ELSE [err |-> FALSE,
                           val |-> [i \in 1..n |->
                                     (body[i] - KeyStream(kd, nd, i)) % 256]]

-----------------------------------------------------------------------------
(* base64.StdEncoding                                                      *)

B64Char(v) ==
    IF v < 26 THEN 65 + v
    ELSE IF v < 52 THEN 97 + (v - 26)
    ELSE IF v < 62 THEN 48 + (v - 52)
    ELSE IF v = 62 THEN 43 ELSE 47

\* The 6-bit value of a character, -1 when it is not in the alphabet.
B64Val(c) ==
    IF c >= 65 /\ c <= 90 THEN c - 65
    ELSE IF c >= 97 /\ c <= 122 THEN c - 97 + 26
    ELSE IF c >= 48 /\ c <= 57 THEN c - 48 + 52
    ELSE IF c = 43 THEN 62
    ELSE IF c = 47 THEN 63 ELSE -1

B64Pad == 61

\* The k-th character (k in 0..3) of the group encoding bytes a, b, c, of
\* which only the first n exist.
B64GroupChar(a, b, c, n, k) ==
    IF k = 0 THEN B64Char(a \div 4)
    ELSE IF k = 1 THEN B64Char((a % 4) * 16 + (b \div 16))
    ELSE IF k = 2 THEN (IF n < 2 THEN B64Pad ELSE B64Char((b % 16) * 4 + (c \div 64)))
    ELSE (IF n < 3 THEN B64Pad ELSE B64Char(c % 64))

EncodeToString(s) ==
    LET n == Len(s)
        at(i) == IF i <= n THEN s[i] ELSE 0
    IN  [p \in 1..(4 * ((n + 2) \div 3)) |->
            LET g == (p - 1) \div 4
                k == (p - 1) % 4
            IN  B64GroupChar(at(3 * g + 1), at(3 * g + 2), at(3 * g + 3), n - 3 * g, k)]

\* The bytes of one group of four characters; -1 marks a corrupt group.
\* Padding is accepted only in the last group; StdEncoding is not Strict, so
\* the unused low bits before padding are not checked.
B64Quad(q, last) ==
    LET a == B64Val(q[1])
        b == B64Val(q[2])
        c == B64Val(q[3])
        d == B64Val(q[4])
    IN  IF a < 0 \/ b < 0 THEN << -1 >>
        ELSE IF q[3] = B64Pad /\ q[4] = B64Pad THEN
            IF last THEN << a * 4 + b \div 16 >> ELSE << -1 >>
        ELSE IF c < 0 THEN << -1 >>
        ELSE IF q[4] = B64Pad THEN
            IF last
                THEN << a * 4 + b \div 16, (b % 16) * 16 + c \div 4 >>
                ELSE << -1 >>
        ELSE IF d < 0 THEN << -1 >>
        ELSE << a * 4 + b \div 16, (b % 16) * 16 + c \div 4, (c % 4) * 64 + d >>

RECURSIVE B64Groups(_)
B64Groups(s) ==
    IF Len(s) = 0 THEN << >>
    ELSE B64Quad(SubSeq(s, 1, 4), Len(s) = 4) \o B64Groups(SubSeq(s, 5, Len(s)))

DecodeString(s) ==
    IF Len(s) % 4 # 0 THEN [err |-> TRUE, val |-> << >>]
    ELSE LET out == B64Groups(s)
         IN  IF \E i \in 1..Len(out) : out[i] < 0
                 THEN [err |-> TRUE, val |-> << >>]
                 ELSE [err |-> FALSE, val |-> out]

-----------------------------------------------------------------------------
(* encoding/json for TokenConfig {Token `json:"token"`, TokenSecret        *)
(* `json:"token_secret"`}: Marshal writes the two members in field order   *)
(* with Go's string escaping; Unmarshal reads an object of string members. *)

IsCont(b) == b >= 128 /\ b <= 191

\* utf8.DecodeRune at s[i]: the size of a valid encoding there, 0 when the
\* byte starts no valid encoding (RuneError, width 1).
RuneSize(s, i) ==
    LET b  == s[i]
        n  == Len(s) - i + 1
        b2 == IF n >= 2 THEN s[i + 1] ELSE 0
        b3 == IF n >= 3 THEN s[i + 2] ELSE 0
        b4 == IF n >= 4 THEN s[i + 3] ELSE 0
    IN  IF b < 128 THEN 1
        ELSE IF b >= 194 /\ b <= 223 THEN (IF IsCont(b2) THEN 2 ELSE 0)
        ELSE IF b = 224 THEN (IF b2 >= 160 /\ b2 <= 191 /\ IsCont(b3) THEN 3 ELSE 0)
        ELSE IF b = 237 THEN (IF b2 >= 128 /\ b2 <= 159 /\ IsCont(b3) THEN 3 ELSE 0)
        ELSE IF b >= 225 /\ b <= 239 THEN (IF IsCont(b2) /\ IsCont(b3) THEN 3 ELSE 0)
        ELSE IF b = 240 THEN
            (IF b2 >= 144 /\ b2 <= 191 /\ IsCont(b3) /\ IsCont(b4) THEN 4 ELSE 0)
        ELSE IF b >= 241 /\ b <= 243 THEN
            (IF IsCont(b2) /\ IsCont(b3) /\ IsCont(b4) THEN 4 ELSE 0)
        ELSE IF b = 244 THEN
            (IF b2 >= 128 /\ b2 <= 143 /\ IsCont(b3) /\ IsCont(b4) THEN 4 ELSE 0)
        ELSE 0

RECURSIVE ValidUTF8From(_, _)
ValidUTF8From(s, i) ==
    IF i > Len(s) THEN TRUE
    ELSE LET k == RuneSize(s, i)
         IN  k > 0 /\ ValidUTF8From(s, i + k)

\* utf8.ValidString
ValidUTF8(s) == ValidUTF8From(s, 1)

HexDigit(d) == IF d < 10 THEN 48 + d ELSE 97 + (d - 10)

\* The value of a hexadecimal digit, -1 when the character is none.
HexVal(c) ==
    IF c >= 48 /\ c <= 57 THEN c - 48
    ELSE IF c >= 97 /\ c <= 102 THEN c - 97 + 10
    ELSE IF c >= 65 /\ c <= 70 THEN c - 65 + 10 ELSE -1

\* U+FFFD, the replacement rune, in UTF-8.
ReplacementRune == << 239, 191, 189 >>

\* utf8.EncodeRune for the runes a \uXXXX escape can name.
EncodeRune(r) ==
    IF r < 128 THEN << r >>
    ELSE IF r < 2048 THEN << 192 + (r \div 64), 128 + (r % 64) >>
    ELSE IF r >= 55296 /\ r <= 57343 THEN ReplacementRune
    ELSE << 224 + (r \div 4096), 128 + ((r \div 64) % 64), 128 + (r % 64) >>

\* htmlSafeSet: the ASCII bytes written as they are.
HtmlSafe(b) == b >= 32 /\ b < 128 /\ b \notin {34, 92, 60, 62, 38}

\* The escape the encoder writes for one ASCII byte outside htmlSafeSet.
EscapeByte(b) ==
    IF b = 34 \/ b = 92 THEN << 92, b >>
    ELSE IF b = 8 THEN << 92, 98 >>
    ELSE IF b = 12 THEN << 92, 102 >>
    ELSE IF b = 10 THEN << 92, 110 >>
    ELSE IF b = 13 THEN << 92, 114 >>
    ELSE IF b = 9 THEN << 92, 116 >>
    ELSE << 92, 117, 48, 48, HexDigit(b \div 16), HexDigit(b % 16) >>

\* The body of a JSON string literal for the Go string s, from index i:
\* invalid UTF-8 is coerced to U+FFFD, U+2028 and U+2029 are escaped.
RECURSIVE EncodeStringFrom(_, _)
EncodeStringFrom(s, i) ==
    IF i > Len(s) THEN << >>
    ELSE IF s[i] < 128 THEN
        (IF HtmlSafe(s[i]) THEN << s[i] >> ELSE EscapeByte(s[i]))
            \o EncodeStringFrom(s, i + 1)
    ELSE LET k == RuneSize(s, i)
         IN  IF k = 0 THEN
                 << 92, 117, 102, 102, 102, 100 >> \o EncodeStringFrom(s, i + 1)
             ELSE IF k = 3 /\ s[i] = 226 /\ s[i + 1] = 128 /\ s[i + 2] \in {168, 169} THEN
                 << 92, 117, 50, 48, 50, HexDigit(s[i + 2] - 160) >>
                     \o EncodeStringFrom(s, i + 3)
             ELSE SubSeq(s, i, i + k - 1) \o EncodeStringFrom(s, i + k)

JsonQuote(s) == << 34 >> \o EncodeStringFrom(s, 1) \o << 34 >>

\* The member names, in bytes: "token" and "token_secret".
KeyToken == << 116, 111, 107, 101, 110 >>

KeyTokenSecret == << 116, 111, 107, 101, 110, 95, 115, 101, 99, 114, 101, 116 >>

\* json.Marshal(TokenConfig{Token, TokenSecret})
Marshal(tokenConfig) ==
    << 123 >> \o JsonQuote(KeyToken) \o << 58 >> \o JsonQuote(tokenConfig.Token)
        \o << 44 >> \o JsonQuote(KeyTokenSecret) \o << 58 >>
        \o JsonQuote(tokenConfig.TokenSecret) \o << 125 >>

JsonErr == [err |-> TRUE, val |-> << >>, next |-> 0]

\* Reads a string literal whose opening quote is before s[i]: the Go string
\* it denotes and the index after the closing quote.
RECURSIVE Unquote(_, _, _)
Unquote(s, i, acc) ==
    IF i > Len(s) THEN JsonErr
    ELSE LET c == s[i] IN
        IF c = 34 THEN [err |-> FALSE, val |-> acc, next |-> i + 1]
        ELSE IF c = 92 THEN
            IF i + 1 > Len(s) THEN JsonErr
            ELSE LET e == s[i + 1] IN
                IF e \in {34, 92, 47, 39} THEN Unquote(s, i + 2, acc \o << e >>)
                ELSE IF e = 98 THEN Unquote(s, i + 2, acc \o << 8 >>)
                ELSE IF e = 102 THEN Unquote(s, i + 2, acc \o << 12 >>)
                ELSE IF e = 110 THEN Unquote(s, i + 2, acc \o << 10 >>)
                ELSE IF e = 114 THEN Unquote(s, i + 2, acc \o << 13 >>)
                ELSE IF e = 116 THEN Unquote(s, i + 2, acc \o << 9 >>)
                ELSE IF e = 117 THEN
                    IF i + 5 > Len(s) THEN JsonErr
                    ELSE LET h1 == HexVal(s[i + 2])
                             h2 == HexVal(s[i + 3])
                             h3 == HexVal(s[i + 4])
                             h4 == HexVal(s[i + 5])
                         IN  IF h1 < 0 \/ h2 < 0 \/ h3 < 0 \/ h4 < 0 THEN JsonErr
                             ELSE Unquote(s, i + 6,
                                    acc \o EncodeRune(h1 * 4096 + h2 * 256 + h3 * 16 + h4))
                ELSE JsonErr
        ELSE IF c < 32 THEN JsonErr
        ELSE IF c < 128 THEN Unquote(s, i + 1, acc \o << c >>)
        ELSE LET k == RuneSize(s, i)
             IN  IF k = 0 THEN Unquote(s, i + 1, acc \o ReplacementRune)
                 ELSE Unquote(s, i + k, acc \o SubSeq(s, i, i + k - 1))

\* The members of an object from s[i] (the opening quote of a member name),
\* stored into the TokenConfig obj; members with other names are skipped.
RECURSIVE Members(_, _, _)
Members(s, i, obj) ==
    IF i > Len(s) \/ s[i] # 34 THEN [err |-> TRUE, val |-> obj]
    ELSE LET k == Unquote(s, i + 1, << >>) IN
        IF k.err \/ k.next + 1 > Len(s) \/ s[k.next] # 58 \/ s[k.next + 1] # 34
            THEN [err |-> TRUE, val |-> obj]
        ELSE LET v == Unquote(s, k.next + 2, << >>) IN
            IF v.err \/ v.next > Len(s) THEN [err |-> TRUE, val |-> obj]
            ELSE LET o == IF k.val = KeyToken THEN [obj EXCEPT !.Token = v.val]
                          ELSE IF k.val = KeyTokenSecret
                              THEN [obj EXCEPT !.TokenSecret = v.val]
                              ELSE obj
                 IN  IF s[v.next] = 125
                         THEN [err |-> v.next # Len(s), val |-> o]
                     ELSE IF s[v.next] = 44 THEN Members(s, v.next + 1, o)
                     ELSE [err |-> TRUE, val |-> obj]

ZeroTokenConfig == [Token |-> EmptyStr, TokenSecret |-> EmptyStr]

\* json.Unmarshal(data, &tokenConfig) on a zero TokenConfig, for data without
\* insignificant white space.
Unmarshal(data) ==
    IF Len(data) < 2 \/ data[1] # 123 THEN [err |-> TRUE, val |-> ZeroTokenConfig]
    ELSE IF data = << 123, 125 >> THEN [err |-> FALSE, val |-> ZeroTokenConfig]
    ELSE Members(data, 2, ZeroTokenConfig)

-----------------------------------------------------------------------------
(* encrypt / decrypt and the storage file                                  *)

\* The random nonces io.ReadFull(rand.Reader, nonce) may yield in the model.
NonceChoices == 2

Nonces == { [i \in 1..NonceSize |-> (17 * n + i) % 256] : n \in 1..NonceChoices }

\* gcm.Seal called with a nil destination: the nonce is not stored.
encryptWithoutNonce(data, consumerSecretKey, nonce) ==
    EncodeToString(GcmSeal(<< >>, generateKey(consumerSecretKey), nonce, data))

\* encrypt(data), for the nonce drawn from rand.Reader.
encrypt(data, consumerSecretKey, nonce) ==
    EncodeToString(GcmSeal(nonce, generateKey(consumerSecretKey), nonce, data))

\* decrypt(data): the plaintext, or an error.
decrypt(data, consumerSecretKey) ==
    LET dec == DecodeString(data) IN
    IF dec.err THEN [err |-> TRUE, val |-> << >>]
    ELSE IF Len(dec.val) < NonceSize THEN [err |-> TRUE, val |-> << >>]
    ELSE GcmOpen(generateKey(consumerSecretKey),
                 SubSeq(dec.val, 1, NonceSize),
                 SubSeq(dec.val, NonceSize + 1, Len(dec.val)))

\* c.token == nil
NoToken == [nil |-> TRUE, Token |-> EmptyStr, TokenSecret |-> EmptyStr]

\* oauth1.Token{Token, TokenSecret}
MkToken(t, s) == [nil |-> FALSE, Token |-> t, TokenSecret |-> s]

\* The storage file does not exist.
NoFile == [exists |-> FALSE, data |-> << >>]

\* The storage file with the given contents.
FileOf(data) == [exists |-> TRUE, data |-> data]

\* saveTokensSecurely up to os.WriteFile: the bytes to write, or an error
\* when there is no token.
saveTokensSecurely(tok, consumerSecretKey, nonce) ==
    IF tok = NoToken THEN [err |-> TRUE, data |-> << >>]
    ELSE [err |-> FALSE,
          data |-> encrypt(Marshal([Token |-> tok.Token,
                                    TokenSecret |-> tok.TokenSecret]),
                           consumerSecretKey, nonce)]

\* A load that takes what decrypts for a TokenConfig, JSON or not.
loadTokensSecurelyUnparsed(stored, consumerSecretKey) ==
    IF ~stored.exists THEN [err |-> TRUE, token |-> NoToken]
    ELSE LET d == decrypt(stored.data, consumerSecretKey) IN
        IF d.err THEN [err |-> TRUE, token |-> NoToken]
        ELSE LET u == Unmarshal(d.val) IN
            [err |-> FALSE, token |-> MkToken(u.val.Token, u.val.TokenSecret)]

\* loadTokensSecurely from the file's contents: the token, or an error.
loadTokensSecurely(stored, consumerSecretKey) ==
    IF ~stored.exists THEN [err |-> TRUE, token |-> NoToken]
    ELSE LET d == decrypt(stored.data, consumerSecretKey) IN
        IF d.err THEN [err |-> TRUE, token |-> NoToken]
        ELSE LET u == Unmarshal(d.val) IN
            IF u.err THEN [err |-> TRUE, token |-> NoToken]
            ELSE [err |-> FALSE, token |-> MkToken(u.val.Token, u.val.TokenSecret)]

\* The storage file as saveTokensSecurely wrote it.  The state keeps what
\* was encrypted; the bytes are worked out when the file is read.
WrittenFile(tok, consumerSecretKey, nonce) ==
    [exists |-> TRUE,
     written |-> [token |-> tok, key |-> consumerSecretKey, nonce |-> nonce]]

\* os.ReadFile: the storage file with its bytes.
ReadFile(f) ==
    IF f.exists /\ "written" \in DOMAIN f
        THEN FileOf(saveTokensSecurely(f.written.token, f.written.key,
                                       f.written.nonce).data)
        ELSE f

-----------------------------------------------------------------------------
(* State                                                                   *)

VARIABLES
    \* --- client.NewWithContext and the callback server (Spec) ---
    env,              \* the environment variables read by NewWithContext
    file,             \* contents of discogs_tui_config.enc, or NoFile
    pc,               \* position of the goroutine running main / NewWithContext
    phase,            \* 1 up to the first identity check, 2 while re-authenticating
    token,            \* c.token
    identity,         \* c.Identity.Username, EmptyStr until decoded
    transport,        \* c.Transport is the customTransport
    requestToken,     \* c.requestToken
    handlingRedirect, \* c.handlingRedirect
    doneVerifying,    \* c.doneVerifying
    oauthComplete,    \* what c.oauthComplete buffers (capacity 1)
    server,           \* the handshake's http.Server and its goroutine
    ctxDone,          \* ctx.Done() is closed
    handlers,         \* the handleRedirect invocations, one per callback request
    nRequest,         \* request tokens issued so far
    nAccess,          \* access tokens issued so far
    result,           \* what NewWithContext returned
    log,              \* history: what the main goroutine did, in order
    refused,          \* history: the first callback of a re-authentication handshake,
                      \* valid and alone, was answered "Already handling a request"
    verifiedWith,     \* c.token as RoundTrip signed it into the last identity request
    \* --- saveTokensSecurely / loadTokensSecurely as functions (SpecCrypto) ---
    cIn,              \* the inputs: token pair, consumer secret, nonce
    cFile,            \* the file written by the save
    cOut,             \* what the load returned
    \* --- the terminal UI (SpecTui) ---
    NumOfRows,        \* t.Config.Grid.NumOfRows
    NumOfCols,        \* t.Config.Grid.NumOfCols
    started,          \* "no", or the method that runs the application
    CollectionPrims,  \* t.CollectionPrims: the slice, by its length
    WishlistPrims,    \* t.WishlistPrims
    OrderPrims,       \* t.OrderPrims
    SelectedSource,   \* t.SelectedSource
    PreviewPosition,  \* t.PreviewPosition
    LastUpdated,      \* t.LastUpdated, in ticker periods; ZeroTime until the first draw
    Preview,          \* the items of the t.Preview grid
    focus,            \* the primitive that has the focus
    loaders,          \* the goroutines that call LoadData / LoadDataWithContext
    pending,          \* closures queued with QueueUpdateDraw, not yet run
    tickC,            \* ticks buffered in ticker.C (capacity 1)
    now,              \* ticker periods elapsed
    crashed,          \* the process died of a run-time panic
    loadPc,           \* where one call of LoadDataWithContext stands
    loadCtxDone,      \* loadCtx of that call is done (2 minutes, or the parent)
    respBody,         \* what each endpoint answered that call
    fetched,          \* its locals collections, wants, orders
    loopIdx,          \* the index of its range loop
    built,            \* its local collectionCards, wantCards or orderCards
    prims,            \* t.CollectionPrims, t.WishlistPrims, t.OrderPrims, card by card
    shown,            \* what that call passed to showError and showWarning
    mapIn,            \* the releases handed to a mapping function of package dto
    mapOut            \* what that call came to

authVars == << env, file, pc, phase, token, identity, transport, requestToken,
               handlingRedirect, doneVerifying, oauthComplete, server, ctxDone,
               handlers, nRequest, nAccess, result, log, refused, verifiedWith >>

cryptoVars == << cIn, cFile, cOut >>

tuiVars == << NumOfRows, NumOfCols, started, CollectionPrims, WishlistPrims,
              OrderPrims, SelectedSource, PreviewPosition, LastUpdated, Preview,
              focus, loaders, pending, tickC, now, crashed >>

\* One call of LoadDataWithContext, card by card.
cardVars == << loadPc, loadCtxDone, respBody, fetched, loopIdx, built, prims, shown >>

\* One call of MapCollectionReleases or MapWishlistReleases.
mapVars == << mapIn, mapOut >>

vars == << authVars, cryptoVars, tuiVars, cardVars, mapVars >>

-----------------------------------------------------------------------------
(* Strings of the model                                                    *)

\* "k", "c": a consumer key and a consumer secret.
StrKey == << 107 >>

StrSecret == << 99 >>

\* Another consumer secret, under which an older file may have been written.
StrOtherSecret == << 100 >>

\* "8081", "abc", "123456": values of LOCAL_PORT.
StrPort == << 56, 48, 56, 49 >>

StrPortWord == << 97, 98, 99 >>

StrPortLong == << 49, 50, 51, 52, 53, 54 >>

\* The token pair of the environment, the one of an earlier run.
EnvToken == MkToken(<< 101 >>, << 102 >>)

StoredToken == MkToken(<< 112 >>, << 113 >>)

\* The n-th request token and the n-th access token pair the provider issues.
RequestTokenNo(n) == << 114, 48 + n >>

AccessTokenNo(n) == MkToken(<< 97, 48 + n >>, << 115, 48 + n >>)

\* An oauth_token no handshake was given, and a non-empty oauth_verifier.
StrBadToken == << 120 >>

StrVerifier == << 118 >>

StrUser == << 117 >>

-----------------------------------------------------------------------------
(* Bounds                                                                  *)

\* Callback requests the local server receives in one run.
MaxCallbacks == 2

Handlers == 1..MaxCallbacks

-----------------------------------------------------------------------------
(* NewWithContext (Spec)                                                   *)

NoResult == [returned |-> FALSE, ok |-> FALSE, err |-> ""]

Returned(ok, err) == [returned |-> TRUE, ok |-> ok, err |-> err]

IdleHandler == [pc |-> "idle", tok |-> EmptyStr, verifier |-> EmptyStr, resp |-> 0]

\* An invocation that has returned, with the status it answered.
DoneHandler(resp) == [pc |-> "done", tok |-> EmptyStr, verifier |-> EmptyStr, resp |-> resp]

\* The nonce an earlier run drew.
EarlierNonce == [i \in 1..NonceSize |-> (29 * i) % 256]

\* The files an earlier run of the program, or damage, can have left behind.
InitialFiles ==
    { NoFile, FileOf(<< 33, 33 >>) }
        \cup { WrittenFile(StoredToken, k, EarlierNonce) :
                  k \in {StrSecret, StrOtherSecret} }

InitialEnvs ==
    [ consumerKey : {EmptyStr, StrKey},
      consumerSecretKey : {EmptyStr, StrSecret},
      localPort : {EmptyStr, StrPort, StrPortWord, StrPortLong},
      token : {EmptyStr, EnvToken.Token},
      tokenSecret : {EmptyStr, EnvToken.TokenSecret} ]

\* A validation that looks at the consumer secret before the consumer key.
validateConfigSecretFirst(e) ==
    IF e.consumerSecretKey = EmptyStr THEN "ErrMissingConsumerSecret"
    ELSE IF e.consumerKey = EmptyStr THEN "ErrMissingConsumerKey"
    ELSE IF e.localPort = EmptyStr THEN "ErrMissingLocalPort"
    ELSE IF Len(e.localPort) < 1 \/ Len(e.localPort) > 5 THEN "ErrInvalidLocalPort"
    ELSE ""

\* validateConfig: the error, or "" when the configuration is accepted.
validateConfig(e) ==
    IF e.consumerKey = EmptyStr THEN "ErrMissingConsumerKey"
    ELSE IF e.consumerSecretKey = EmptyStr THEN "ErrMissingConsumerSecret"
    ELSE IF e.localPort = EmptyStr THEN "ErrMissingLocalPort"
    ELSE IF Len(e.localPort) < 1 \/ Len(e.localPort) > 5 THEN "ErrInvalidLocalPort"
    ELSE ""

\* A check that takes the environment pair when either variable is set.
EnvTokenEitherPresent(e) == e.token # EmptyStr \/ e.tokenSecret # EmptyStr

\* The environment pair is used when both DISCOGS_TOKEN and
\* DISCOGS_TOKEN_SECRET are set.
EnvTokenPresent(e) == e.token # EmptyStr /\ e.tokenSecret # EmptyStr

\* A send that puts its value in place of the one that waits in the channel.
OverwriteSend(ch, v) == << v >>

\* A send that never blocks: select { case ch <- v: default: }.
TrySend(ch, v) == IF Len(ch) = 0 THEN << v >> ELSE ch

\* The pairs a run can hold: the environment's, or one a handshake obtained.
RunTokens == { EnvToken } \cup { AccessTokenNo(n) : n \in 1..MaxCallbacks }

\* A save that removes the file when it has nothing to write or cannot.
FileAfterSaveOrRemove(f, tok, secret, nonce, writeOK) ==
    IF tok = NoToken \/ ~writeOK THEN NoFile ELSE WrittenFile(tok, secret, nonce)

\* os.WriteFile of what saveTokensSecurely produced; the file stays as it
\* was when the token is nil (saveTokensSecurely returns before it writes)
\* or the write fails.
FileAfterSave(f, tok, secret, nonce, writeOK) ==
    IF tok = NoToken \/ ~writeOK THEN f ELSE WrittenFile(tok, secret, nonce)

\* What loadTokensSecurely makes of the files of a run.
LoadedFiles ==
    { [stored |-> f, key |-> StrSecret,
       loaded |-> loadTokensSecurely(ReadFile(f), StrSecret)] :
        f \in InitialFiles
                \cup { WrittenFile(t, StrSecret, n) : t \in RunTokens, n \in Nonces } }

\* loadTokensSecurely of a storage file, looked up in LoadedFiles where it
\* is listed there.
LoadResult(f, secret) ==
    LET known == { r \in LoadedFiles : r.stored = f /\ r.key = secret }
    IN  IF known # {} THEN (CHOOSE r \in known : TRUE).loaded
        ELSE loadTokensSecurely(ReadFile(f), secret)

SaveWrote(tok, writeOK) == tok # NoToken /\ writeOK

SaveEvents(tok, writeOK) ==
    IF SaveWrote(tok, writeOK) THEN << "save", "write" >> ELSE << "save" >>

AuthInit ==
    /\ env \in InitialEnvs
    /\ file \in InitialFiles
    /\ pc = "init"
    /\ phase = 1
    /\ token = NoToken
    /\ identity = EmptyStr
    /\ transport = FALSE
    /\ requestToken = EmptyStr
    /\ handlingRedirect = FALSE
    /\ doneVerifying = FALSE
    /\ oauthComplete = << >>
    /\ server = "none"
    /\ ctxDone = FALSE
    /\ handlers = [h \in Handlers |-> IdleHandler]
    /\ nRequest = 0
    /\ nAccess = 0
    /\ result = NoResult
    /\ log = << >>
    /\ refused = FALSE
    /\ verifiedWith = NoToken

\* With the stored pair the handshake is skipped.
AfterLoadHandshake == "generate"

\* With the stored pair NewWithContext goes on to the identity check.
AfterLoad == "verify"

\* NewWithContext up to the first point where it waits for the network:
\* validateConfig, loadTokensSecurely, the environment pair and its save.
NewWithContextBegin ==
    /\ pc = "init"
    /\ LET cfgErr == validateConfig(env)
           loaded == loadTokensSecurely(ReadFile(file), env.consumerSecretKey)
       IN  IF cfgErr # "" THEN
               /\ pc' = "returned"
               /\ result' = Returned(FALSE, cfgErr)
               /\ UNCHANGED << token, file, log, transport >>
           ELSE IF ~loaded.err /\ loaded.token # NoToken THEN
               /\ token' = loaded.token
               /\ transport' = TRUE
               /\ pc' = AfterLoad
               /\ log' = log \o << "load_ok" >>
               /\ UNCHANGED << file, result >>
           ELSE IF EnvTokenPresent(env) THEN
               \E nonce \in Nonces, writeOK \in BOOLEAN :
                   LET t == MkToken(env.token, env.tokenSecret) IN
                   /\ token' = t
                   /\ file' = FileAfterSave(file, t, env.consumerSecretKey, nonce, writeOK)
                   /\ transport' = TRUE
                   /\ pc' = "verify"
                   /\ log' = log \o << "load_fail", "env" >> \o SaveEvents(t, writeOK)
                   /\ UNCHANGED result
           ELSE
               /\ pc' = "generate"
               /\ log' = log \o << "load_fail" >>
               /\ UNCHANGED << token, file, result, transport >>
    /\ UNCHANGED << env, phase, identity, requestToken, handlingRedirect,
                    doneVerifying, oauthComplete, server, ctxDone, handlers,
                    nRequest, nAccess, refused, verifiedWith, cryptoVars, cardVars, mapVars, tuiVars >>

\* The error NewWithContext returns when the handshake of this phase fails.
HandshakeFailure == IF phase = 1 THEN "ErrTokenGenerationFailed" ELSE "re-authentication failed"

\* generateDiscogsTokenWithContext up to its select: RequestToken, the new
\* completion channel, the server and its goroutine.
GenerateStart ==
    /\ pc = "generate"
    /\ \E netOK \in BOOLEAN :
        IF netOK THEN
            /\ nRequest' = nRequest + 1
            /\ requestToken' = RequestTokenNo(nRequest + 1)
            /\ oauthComplete' = << >>
            /\ server' = "spawned"
            /\ pc' = "wait"
            /\ log' = log \o << "handshake" >>
            /\ UNCHANGED result
        ELSE
            /\ pc' = "returned"
            /\ result' = Returned(FALSE, HandshakeFailure)
            /\ log' = log \o << "handshake", "handshake_err" >>
            /\ UNCHANGED << nRequest, requestToken, oauthComplete, server >>
    /\ UNCHANGED << env, file, phase, token, identity, transport, handlingRedirect,
                    doneVerifying, ctxDone, handlers, nAccess, refused, verifiedWith, cryptoVars, cardVars, mapVars, tuiVars >>

IsDigit(b) == b >= 48 /\ b <= 57

\* net.Listen("tcp", ":" + localPort) can bind only a numeric port (service
\* names aside); whether a numeric port is free is up to the system.
PortBindable(p) == \A i \in 1..Len(p) : IsDigit(p[i])

\* The server goroutine: ListenAndServe binds the port, or fails and tries
\* to send its error.  After Close it returns ErrServerClosed and sends nothing.
ServerListen ==
    /\ server = "spawned"
    /\ \E bound \in (IF PortBindable(env.localPort) THEN BOOLEAN ELSE {FALSE}) :
        IF bound THEN
            /\ server' = "listening"
            /\ UNCHANGED oauthComplete
        ELSE
            /\ server' = "failed"
            /\ oauthComplete' = TrySend(oauthComplete, "server error")
    /\ UNCHANGED << env, file, pc, phase, token, identity, transport, requestToken,
                    handlingRedirect, doneVerifying, ctxDone, handlers, nRequest,
                    nAccess, result, log, refused, verifiedWith, cryptoVars, cardVars, mapVars, tuiVars >>

\* A return path that forgets server.Close().
ServerLeftOpen == server

\* server.Close(): the listener is closed; a goroutine that has not bound
\* the port yet never will.
ServerClosed == "closed"

HandshakeReturnsError ==
    /\ server' = ServerClosed
    /\ pc' = "returned"
    /\ result' = Returned(FALSE, HandshakeFailure)
    /\ log' = log \o << "handshake_err" >>

\* select: case <-ctx.Done()
WaitCtxDone ==
    /\ pc = "wait"
    /\ ctxDone
    /\ HandshakeReturnsError
    /\ UNCHANGED << env, file, phase, token, identity, transport, requestToken,
                    handlingRedirect, doneVerifying, oauthComplete, ctxDone, handlers,
                    nRequest, nAccess, refused, verifiedWith, cryptoVars, cardVars, mapVars, tuiVars >>

\* The identity check placed before the save.
AfterHandshakeVerify == "verify"

\* After a handshake NewWithContext saves the pair, then checks the identity.
AfterHandshake == "save"

\* select: case err := <-c.oauthComplete
WaitComplete ==
    /\ pc = "wait"
    /\ Len(oauthComplete) > 0
    /\ oauthComplete' = Tail(oauthComplete)
    /\ IF Head(oauthComplete) = "nil" THEN
            /\ server' = ServerClosed
            /\ pc' = AfterHandshake
            /\ log' = log \o << "handshake_ok" >>
            /\ UNCHANGED result
       ELSE HandshakeReturnsError
    /\ UNCHANGED << env, file, phase, token, identity, transport, requestToken,
                    handlingRedirect, doneVerifying, ctxDone, handlers, nRequest,
                    nAccess, refused, verifiedWith, cryptoVars, cardVars, mapVars, tuiVars >>

\* select: case <-time.After(5 * time.Minute)
WaitTimeout ==
    /\ pc = "wait"
    /\ HandshakeReturnsError
    /\ UNCHANGED << env, file, phase, token, identity, transport, requestToken,
                    handlingRedirect, doneVerifying, oauthComplete, ctxDone, handlers,
                    nRequest, nAccess, refused, verifiedWith, cryptoVars, cardVars, mapVars, tuiVars >>

\* A save after a handshake whose failure NewWithContext returns.
SaveAfterHandshakeOrFail ==
    /\ pc = "save"
    /\ \E nonce \in Nonces, writeOK \in BOOLEAN :
        /\ file' = FileAfterSave(file, token, env.consumerSecretKey, nonce, writeOK)
        /\ log' = log \o SaveEvents(token, writeOK)
        /\ IF SaveWrote(token, writeOK)
              THEN pc' = "verify" /\ UNCHANGED result
              ELSE pc' = "returned" /\ result' = Returned(FALSE, "save failed")
    /\ transport' = TRUE
    /\ UNCHANGED << env, phase, token, identity, requestToken, handlingRedirect,
                    doneVerifying, oauthComplete, server, ctxDone, handlers, nRequest,
                    nAccess, refused, verifiedWith, cryptoVars, cardVars, mapVars, tuiVars >>

\* saveTokensSecurely after a handshake; a failure only prints a warning.
SaveAfterHandshake ==
    /\ pc = "save"
    /\ \E nonce \in Nonces, writeOK \in BOOLEAN :
        /\ file' = FileAfterSave(file, token, env.consumerSecretKey, nonce, writeOK)
        /\ log' = log \o SaveEvents(token, writeOK)
    /\ transport' = TRUE
    /\ pc' = "verify"
    /\ UNCHANGED << env, phase, token, identity, requestToken, handlingRedirect,
                    doneVerifying, oauthComplete, server, ctxDone, handlers, nRequest,
                    nAccess, result, refused, verifiedWith, cryptoVars, cardVars, mapVars, tuiVars >>

\* getIdentityWithContext sends its request: RoundTrip signs it with the
\* c.token of that moment.
VerifyRequest ==
    /\ pc = "verify"
    /\ verifiedWith' = token
    /\ pc' = "identity"
    /\ UNCHANGED << env, file, phase, token, identity, transport, requestToken,
                    handlingRedirect, doneVerifying, oauthComplete, server, ctxDone,
                    handlers, nRequest, nAccess, result, log, refused, cryptoVars, cardVars, mapVars,
                    tuiVars >>

\* No Authorization header.
NoHeader == << >>

\* The header RoundTrip sets: OAuth oauth_consumer_key, oauth_token and the
\* PLAINTEXT signature "consumer secret & token secret" (the nonce and the
\* timestamp are the clock's).
AuthorizationHeader(consumerKey, tok, consumerSecretKey) ==
    << consumerKey, tok.Token, consumerSecretKey \o << 38 >> \o tok.TokenSecret >>

\* A transport that passes the request on without a header when there is no
\* token.
TransportRoundTripUnsigned(tok, e) ==
    IF tok.nil
        THEN [err |-> "", sent |-> TRUE, header |-> NoHeader]
        ELSE [err |-> "", sent |-> TRUE,
              header |-> AuthorizationHeader(e.consumerKey, tok, e.consumerSecretKey)]

\* customTransport.RoundTrip with c.token = tok: an error and nothing sent
\* without a token, else the request goes to http.DefaultTransport with the
\* header.
TransportRoundTrip(tok, e) ==
    IF tok.nil
        THEN [err |-> "no OAuth token available", sent |-> FALSE, header |-> NoHeader]
        ELSE [err |-> "", sent |-> TRUE,
              header |-> AuthorizationHeader(e.consumerKey, tok, e.consumerSecretKey)]

\* RoundTrip refuses to send without a token; a cancelled context fails the
\* request; otherwise the API answers 200 or not.
IdentityOutcomes ==
    IF ~TransportRoundTrip(verifiedWith, env).sent \/ ctxDone THEN {FALSE} ELSE BOOLEAN

\* A loop that re-authenticates after every failed identity check.
AlwaysReauthenticate == TRUE

\* Only the first identity check of a run is followed by re-authentication;
\* the check after it returns its error.
MayReauthenticate == phase = 1

\* The answer to the identity request and what NewWithContext does with it.
VerifyIdentity ==
    /\ pc = "identity"
    /\ \E ok \in IdentityOutcomes :
        IF ok THEN
            /\ identity' = StrUser
            /\ pc' = "returned"
            /\ result' = Returned(TRUE, "")
            /\ log' = log \o << "verify_ok" >>
            /\ UNCHANGED << token, phase >>
        ELSE IF MayReauthenticate THEN
            /\ token' = NoToken
            /\ phase' = 2
            /\ pc' = "generate"
            /\ log' = log \o << "verify_fail" >>
            /\ UNCHANGED << identity, result >>
        ELSE
            /\ pc' = "returned"
            /\ result' = Returned(FALSE, "authentication still failing after re-auth")
            /\ log' = log \o << "verify_fail" >>
            /\ UNCHANGED << identity, token, phase >>
    /\ UNCHANGED << env, file, transport, requestToken, handlingRedirect,
                    doneVerifying, oauthComplete, server, ctxDone, handlers, nRequest,
                    nAccess, refused, verifiedWith, cryptoVars, cardVars, mapVars, tuiVars >>

\* main: with a client, tui.New starts the load, whose first request is
\* GetCollection; with an error, log.Fatalf.
MainAfterClient ==
    /\ pc = "returned"
    /\ IF result.ok
          THEN pc' = "tui" /\ log' = log \o << "data" >>
          ELSE pc' = "exit" /\ UNCHANGED log
    /\ UNCHANGED << env, file, phase, token, identity, transport, requestToken,
                    handlingRedirect, doneVerifying, oauthComplete, server, ctxDone,
                    handlers, nRequest, nAccess, result, refused, verifiedWith, cryptoVars, cardVars, mapVars, tuiVars >>

\* The context of main (10 minutes) expires.  Only the select of the
\* handshake and the identity request look at it.
CtxCancel ==
    /\ ~ctxDone
    /\ pc \in {"wait", "verify", "identity"}
    /\ ctxDone' = TRUE
    /\ UNCHANGED << env, file, pc, phase, token, identity, transport, requestToken,
                    handlingRedirect, doneVerifying, oauthComplete, server, handlers,
                    nRequest, nAccess, result, log, refused, verifiedWith, cryptoVars, cardVars, mapVars, tuiVars >>

-----------------------------------------------------------------------------
(* handleRedirect: one invocation per callback request, each on its own    *)
(* goroutine of net/http.  The fields of the client are read and written   *)
(* without a lock, so an invocation is a sequence of steps.                *)

\* The oauth_token values a request can carry: a request token the provider
\* has issued, or one it has not.
CallbackTokens == { RequestTokenNo(n) : n \in 1..nRequest } \cup { StrBadToken }

CallbackVerifiers == { EmptyStr, StrVerifier }

\* The guard at the top of handleRedirect.
Busy == handlingRedirect \/ doneVerifying

authUnchangedByHandler ==
    UNCHANGED << env, file, pc, phase, identity, transport, requestToken, server,
                 ctxDone, nRequest, result, log, verifiedWith, cryptoVars, cardVars, mapVars, tuiVars >>

\* The goroutines of the server run as long as the process does: when
\* NewWithContext returns an error, main ends the process with log.Fatalf.
Running(h, at) == handlers[h].pc = at /\ ~(result.returned /\ ~result.ok)

\* Some invocation is between the guard and its return.
InFlight == \E g \in Handlers : handlers[g].pc \notin {"idle", "done"}

\* A request arrives at the listening server and reads the guard: it is
\* answered 400 "Already handling a request", or goes on.
HandleArrive(h) ==
    /\ server = "listening"
    /\ Running(h, "idle")
    /\ \A g \in Handlers : g < h => handlers[g].pc # "idle"
    /\ \E t \in CallbackTokens, v \in CallbackVerifiers :
        /\ handlers' = [handlers EXCEPT ![h] =
              IF Busy THEN DoneHandler(400)
              ELSE [pc |-> "passed", tok |-> t, verifier |-> v, resp |-> 0]]
        /\ refused' = (refused \/ (Busy /\ ~InFlight /\ pc = "wait" /\ phase = 2
                                     /\ Len(oauthComplete) = 0
                                     /\ t = requestToken /\ v # EmptyStr))
    /\ UNCHANGED << token, handlingRedirect, doneVerifying, oauthComplete, nAccess >>
    /\ authUnchangedByHandler

\* c.handlingRedirect = true
HandleSetFlag(h) ==
    /\ Running(h, "passed")
    /\ handlingRedirect' = TRUE
    /\ handlers' = [handlers EXCEPT ![h].pc = "flagged"]
    /\ UNCHANGED << token, doneVerifying, oauthComplete, nAccess, refused >>
    /\ authUnchangedByHandler

\* A validation that checks oauth_token and takes any oauth_verifier.
HandleValidateTokenOnly(h) ==
    /\ Running(h, "flagged")
    /\ IF handlers[h].tok # requestToken THEN
            /\ handlers' = [handlers EXCEPT ![h] = DoneHandler(400)]
            /\ oauthComplete' = TrySend(oauthComplete, "invalid OAuth token")
            /\ handlingRedirect' = FALSE
       ELSE
            /\ handlers' = [handlers EXCEPT ![h].pc = "exchange"]
            /\ UNCHANGED << oauthComplete, handlingRedirect >>
    /\ UNCHANGED << token, doneVerifying, nAccess, refused >>
    /\ authUnchangedByHandler

\* The two checks of the query: oauth_token against c.requestToken, then
\* oauth_verifier against "".  A failed check answers 400, signals the error
\* and returns (the deferred reset of handlingRedirect runs).
HandleValidate(h) ==
    /\ Running(h, "flagged")
    /\ IF handlers[h].tok # requestToken THEN
            /\ handlers' = [handlers EXCEPT ![h] = DoneHandler(400)]
            /\ oauthComplete' = TrySend(oauthComplete, "invalid OAuth token")
            /\ handlingRedirect' = FALSE
       ELSE IF handlers[h].verifier = EmptyStr THEN
            /\ handlers' = [handlers EXCEPT ![h] = DoneHandler(400)]
            /\ oauthComplete' = TrySend(oauthComplete, "no verification code received")
            /\ handlingRedirect' = FALSE
       ELSE
            /\ handlers' = [handlers EXCEPT ![h].pc = "exchange"]
            /\ UNCHANGED << oauthComplete, handlingRedirect >>
    /\ UNCHANGED << token, doneVerifying, nAccess, refused >>
    /\ authUnchangedByHandler

\* config.AccessToken and, when it succeeds, the assignment of c.token.
\* The library returns an error unless both parts of the pair are non-empty.
HandleAccessToken(h) ==
    /\ Running(h, "exchange")
    /\ \E netOK \in BOOLEAN :
        IF netOK THEN
            /\ nAccess' = nAccess + 1
            /\ token' = AccessTokenNo(nAccess + 1)
            /\ handlers' = [handlers EXCEPT ![h].pc = "signal"]
            /\ UNCHANGED << oauthComplete, handlingRedirect >>
        ELSE
            /\ handlers' = [handlers EXCEPT ![h] = DoneHandler(500)]
            /\ oauthComplete' = TrySend(oauthComplete, "failed to get access token")
            /\ handlingRedirect' = FALSE
            /\ UNCHANGED << token, nAccess >>
    /\ UNCHANGED << doneVerifying, refused >>
    /\ authUnchangedByHandler

\* The 200 response, doneVerifying, the success signal and the deferred reset.
HandleSignal(h) ==
    /\ Running(h, "signal")
    /\ handlers' = [handlers EXCEPT ![h] = DoneHandler(200)]
    /\ doneVerifying' = TRUE
    /\ oauthComplete' = TrySend(oauthComplete, "nil")
    /\ handlingRedirect' = FALSE
    /\ UNCHANGED << token, nAccess, refused >>
    /\ authUnchangedByHandler

-----------------------------------------------------------------------------
(* The specification of the client start-up                                *)

\* Nothing saved, nothing loaded.
NoInput == [token |-> NoToken, secret |-> EmptyStr, nonce |-> EmptyStr]

NoLoad == [done |-> FALSE, err |-> FALSE, token |-> NoToken]

CryptoIdle == cIn = NoInput /\ cFile = NoFile /\ cOut = NoLoad

\* client.DataSource
CollectionSource == 0

WishlistSource == 1

OrdersSource == 2

Sources == { CollectionSource, WishlistSource, OrdersSource }

\* A slice of n cards; nil and the empty slice are NoCards.
Cards(n) == [n |-> n]

NoCards == Cards(0)

\* The card at index idx of the slice of source src.
CardAt(src, idx) == [src |-> src, idx |-> idx]

FocusNavigation == [on |-> "navigation", card |-> CardAt(0, 0)]

FocusPreview == [on |-> "preview", card |-> CardAt(0, 0)]

FocusCard(c) == [on |-> "card", card |-> c]

\* time.Time{}
ZeroTime == -1

\* The goroutine New starts, and the ticker goroutine of StartWithContext.
Loaders == { "initial", "ticker" }

\* A goroutine that is not inside LoadDataWithContext.
IdleLoader == [pc |-> "idle"]

\* No answer of an endpoint, no list fetched.
NoBody == [got |-> FALSE]

NotFetched == [got |-> FALSE]

\* The position of LoadDataWithContext: the list it works on and where.
LoadAt(src, at) == [src |-> src, at |-> at]

\* No mapping function is being followed.
NotMapping == [fn |-> "none", releases |-> << >>]

NotMapped == [done |-> FALSE]

MapIdle == mapIn = NotMapping /\ mapOut = NotMapped

\* LoadDataWithContext has not been called.
CardsIdle ==
    /\ loadPc = LoadAt(CollectionSource, "idle")
    /\ loadCtxDone = FALSE
    /\ respBody = [src \in Sources |-> NoBody]
    /\ fetched = [src \in Sources |-> NotFetched]
    /\ loopIdx = 0
    /\ built = << >>
    /\ prims = [src \in Sources |-> << >>]
    /\ shown = << >>

\* No terminal UI has been built.
TuiIdle ==
    /\ NumOfRows = 1 /\ NumOfCols = 1
    /\ started = "no"
    /\ CollectionPrims = NoCards /\ WishlistPrims = NoCards /\ OrderPrims = NoCards
    /\ SelectedSource = CollectionSource
    /\ PreviewPosition = << 0, 0 >>
    /\ LastUpdated = ZeroTime
    /\ Preview = {}
    /\ focus = FocusNavigation
    /\ loaders = [l \in Loaders |-> IdleLoader]
    /\ pending = {}
    /\ tickC = 0
    /\ now = 0
    /\ crashed = FALSE

Init == AuthInit /\ CryptoIdle /\ TuiIdle /\ CardsIdle /\ MapIdle

Next ==
    \/ NewWithContextBegin
    \/ GenerateStart
    \/ ServerListen
    \/ WaitCtxDone
    \/ WaitComplete
    \/ WaitTimeout
    \/ SaveAfterHandshake
    \/ VerifyRequest
    \/ VerifyIdentity
    \/ MainAfterClient
    \/ CtxCancel
    \/ \E h \in Handlers : HandleArrive(h)
    \/ \E h \in Handlers : HandleSetFlag(h)
    \/ \E h \in Handlers : HandleValidate(h)
    \/ \E h \in Handlers : HandleAccessToken(h)
    \/ \E h \in Handlers : HandleSignal(h)

Spec == Init /\ [][Next]_vars

-----------------------------------------------------------------------------
(* saveTokensSecurely and loadTokensSecurely as functions (SpecCrypto)     *)

\* Longest token and token secret tried.
MaxTokLen == 2

\* Bytes of the strings tried: a letter, the characters JSON escapes
\* (quote, backslash, "<", line feed, a control character), the two bytes of
\* a two-byte rune, and a byte that starts no rune.
CryptoAlphabet == { 97, 34, 92, 60, 10, 1, 195, 169, 255 }

\* The strings over the alphabet up to the given length.
StringsUpTo(n) == UNION { [1..k -> CryptoAlphabet] : k \in 0..n }

\* Token secrets tried with each token: empty, plain, and U+2028 (which the
\* encoder escapes).
SecretSamples == { EmptyStr, << 115, 38 >>, << 226, 128, 168 >> }

\* Consumer secrets shorter than, as long as, and longer than the key.
ConsumerSecrets ==
    { StrSecret, [i \in 1..KeyLen |-> 64 + i], [i \in 1..(KeyLen + 1) |-> 200 - i] }

CryptoInputs ==
    { [token |-> MkToken(t, ts), secret |-> k, nonce |-> n] :
        t \in StringsUpTo(MaxTokLen), ts \in SecretSamples,
        k \in ConsumerSecrets, n \in Nonces }

\* The client start-up is not running.
AuthIdle ==
    /\ env = [consumerKey |-> EmptyStr, consumerSecretKey |-> EmptyStr,
              localPort |-> EmptyStr, token |-> EmptyStr, tokenSecret |-> EmptyStr]
    /\ file = NoFile
    /\ pc = "idle"
    /\ phase = 1
    /\ token = NoToken
    /\ identity = EmptyStr
    /\ transport = FALSE
    /\ requestToken = EmptyStr
    /\ handlingRedirect = FALSE
    /\ doneVerifying = FALSE
    /\ oauthComplete = << >>
    /\ server = "none"
    /\ ctxDone = FALSE
    /\ handlers = [h \in Handlers |-> IdleHandler]
    /\ nRequest = 0
    /\ nAccess = 0
    /\ result = NoResult
    /\ log = << >>
    /\ refused = FALSE
    /\ verifiedWith = NoToken

InitCrypto == AuthIdle /\ TuiIdle /\ CardsIdle /\ MapIdle /\ cIn \in CryptoInputs /\ cFile = NoFile /\ cOut = NoLoad

\* saveTokensSecurely with c.token and c.consumerSecretKey as given.
CryptoSave ==
    /\ ~cFile.exists
    /\ LET s == saveTokensSecurely(cIn.token, cIn.secret, cIn.nonce)
       IN  /\ ~s.err
           /\ cFile' = FileOf(s.data)
    /\ UNCHANGED << cIn, cOut, authVars, tuiVars, cardVars, mapVars >>

\* loadTokensSecurely of the file the save wrote, same consumer secret.
CryptoLoad ==
    /\ cFile.exists
    /\ ~cOut.done
    /\ LET l == loadTokensSecurely(cFile, cIn.secret)
       IN  cOut' = [done |-> TRUE, err |-> l.err, token |-> l.token]
    /\ UNCHANGED << cIn, cFile, authVars, tuiVars, cardVars, mapVars >>

NextCrypto ==
    \/ CryptoSave
    \/ CryptoLoad

SpecCrypto == InitCrypto /\ [][NextCrypto]_vars

-----------------------------------------------------------------------------
(* NewWithContext over storage files it cannot use (SpecStorage)           *)

\* What saveTokensSecurely wrote for the stored pair under this consumer
\* secret.
StoredBytes == saveTokensSecurely(StoredToken, StrSecret, EarlierNonce).data

\* Files written under another consumer secret.
OtherSecretFiles == { WrittenFile(StoredToken, StrOtherSecret, n) : n \in Nonces }

\* Files cut short: every proper prefix of a file that loads.
TruncatedFiles == { FileOf(SubSeq(StoredBytes, 1, k)) : k \in 0..(Len(StoredBytes) - 1) }

\* Plaintexts that are not JSON: nothing, a word, an object left open.
NotJson ==
    { << >>, << 97, 98, 99 >>, << 123 >>,
      << 123 >> \o JsonQuote(KeyToken) \o << 58 >> \o JsonQuote(StoredToken.Token) }

\* Files that decrypt under this consumer secret to something that is not
\* JSON.
NotJsonFiles == { FileOf(encrypt(p, StrSecret, n)) : p \in NotJson, n \in Nonces }

\* No file, or one os.ReadFile cannot read; a file this configuration
\* cannot decrypt; a file whose plaintext does not parse.
UnreadableFiles == { NoFile } \cup OtherSecretFiles \cup TruncatedFiles \cup NotJsonFiles

StorageFiles == UnreadableFiles \cup { WrittenFile(StoredToken, StrSecret, EarlierNonce) }

\* The configurations validateConfig accepts.
StorageEnvs == { e \in InitialEnvs : validateConfig(e) = "" }

InitStorage ==
    /\ env \in StorageEnvs
    /\ file \in StorageFiles
    /\ pc = "init"
    /\ phase = 1
    /\ token = NoToken
    /\ identity = EmptyStr
    /\ transport = FALSE
    /\ requestToken = EmptyStr
    /\ handlingRedirect = FALSE
    /\ doneVerifying = FALSE
    /\ oauthComplete = << >>
    /\ server = "none"
    /\ ctxDone = FALSE
    /\ handlers = [h \in Handlers |-> IdleHandler]
    /\ nRequest = 0
    /\ nAccess = 0
    /\ result = NoResult
    /\ log = << >>
    /\ refused = FALSE
    /\ verifiedWith = NoToken
    /\ CryptoIdle /\ TuiIdle /\ CardsIdle /\ MapIdle

NextStorage == NewWithContextBegin

SpecStorage == InitStorage /\ [][NextStorage]_vars

-----------------------------------------------------------------------------
(* The terminal UI (SpecTui, SpecRefresh)                                  *)

\* Largest grid and longest card list tried, and the ticker periods watched.
MaxRows == 2

MaxCols == 2

MaxCards == 2

MaxTicks == 1

\* tcell.KeyUp, KeyDown, KeyLeft, KeyRight
ArrowKeys == { "Up", "Down", "Left", "Right" }

\* The slice of a source.
PrimsOf(src) ==
    IF src = CollectionSource THEN CollectionPrims
    ELSE IF src = WishlistSource THEN WishlistPrims
    ELSE OrderPrims

\* What Up and Down add to PreviewPosition[0]: t.Config.Grid.NumOfRows.
RowStep(rows) == rows

\* potentialPosition of handlePreviewNavigation for key k; positions are
\* <<PreviewPosition[0], PreviewPosition[1]>>.
PotentialPosition(pos, k, rows, cols) ==
    IF k = "Up" THEN
        (IF pos[1] > 0 THEN << pos[1] - RowStep(rows), pos[2] >> ELSE pos)
    ELSE IF k = "Down" THEN
        (IF pos[1] < rows - 1 THEN << pos[1] + RowStep(rows), pos[2] >> ELSE pos)
    ELSE IF k = "Left" THEN
        (IF pos[2] > 0 THEN << pos[1], pos[2] - 1 >> ELSE pos)
    ELSE IF k = "Right" THEN
        (IF pos[2] < cols - 1 THEN << pos[1], pos[2] + 1 >> ELSE pos)
    ELSE pos

\* primIndex := potentialPosition[0] + potentialPosition[1]
PrimIndex(pos) == pos[1] + pos[2]

\* overstep: the index is past the end of a non-empty slice.
Overstep(pos, n) == n > 0 /\ PrimIndex(pos) >= n

\* PreviewPosition after handlePreviewNavigation, for a slice of n cards.
PositionAfter(pos, k, rows, cols, n) ==
    LET p == PotentialPosition(pos, k, rows, cols)
    IN  IF Overstep(p, n) THEN pos ELSE p

\* t.Preview.HasFocus(): the grid or one of its items has the focus.
PreviewHasFocus ==
    \/ focus.on = "preview"
    \/ focus.on = "card" /\ \E item \in Preview : item.card = focus.card

\* The application runs and has not died.
AppRunning == started # "no" /\ ~crashed

tuiUnchangedByKey ==
    UNCHANGED << NumOfRows, NumOfCols, started, CollectionPrims, WishlistPrims,
                 OrderPrims, LastUpdated, Preview, loaders, tickC, now,
                 authVars, cryptoVars, cardVars, mapVars >>

\* The focus after handlePreviewNavigation for key k with the preview
\* focused: t.App.SetFocus of the card at primIndex when the slice has one.
FocusAfterArrow(k) ==
    LET cards == PrimsOf(SelectedSource)
        p == PotentialPosition(PreviewPosition, k, NumOfRows, NumOfCols)
    IN  IF cards.n > 0 /\ PrimIndex(p) < cards.n
           THEN FocusCard(CardAt(SelectedSource, PrimIndex(p)))
           ELSE focus

\* An arrow key: the input capture calls handlePreviewNavigation.
KeyArrow(k) ==
    /\ AppRunning
    /\ IF ~PreviewHasFocus THEN UNCHANGED << PreviewPosition, focus >>
       ELSE /\ PreviewPosition' =
                  PositionAfter(PreviewPosition, k, NumOfRows, NumOfCols,
                                PrimsOf(SelectedSource).n)
            /\ focus' = FocusAfterArrow(k)
    /\ UNCHANGED << SelectedSource, pending, crashed >>
    /\ tuiUnchangedByKey

\* Ctrl+A: the focus goes to the menu.
KeyMenu ==
    /\ AppRunning
    /\ focus' = FocusNavigation
    /\ UNCHANGED << SelectedSource, PreviewPosition, pending, crashed >>
    /\ tuiUnchangedByKey

\* Ctrl+D: the focus goes to the preview and to the card at the current
\* position; indexing past the end of the slice panics.
KeyPreview ==
    /\ AppRunning
    /\ LET cards == PrimsOf(SelectedSource)
           primIndex == PrimIndex(PreviewPosition)
       IN  IF cards.n = 0 THEN focus' = FocusPreview /\ UNCHANGED crashed
           ELSE IF primIndex < cards.n THEN
               /\ focus' = FocusCard(CardAt(SelectedSource, primIndex))
               /\ UNCHANGED crashed
           ELSE focus' = FocusPreview /\ crashed' = TRUE
    /\ UNCHANGED << SelectedSource, PreviewPosition, pending >>
    /\ tuiUnchangedByKey

\* A closure queued with QueueUpdateDraw: the redraw of DrawPreviewGrid,
\* the Preview.Clear of showError, or the focus change of focusOnPreview(src).
Update(kind, src) == [kind |-> kind, src |-> src]

DrawUpdate == Update("draw", 0)

ErrorUpdate == Update("error", 0)

\* The menu selection moves to the item of a source: sourceSelected.
NavigationChanged(src) ==
    /\ AppRunning
    /\ focus.on = "navigation"
    /\ SelectedSource' = src
    /\ PreviewPosition' = << 0, 0 >>
    /\ pending' = pending \cup { DrawUpdate }
    /\ UNCHANGED << focus, crashed >>
    /\ tuiUnchangedByKey

\* Enter on the menu item of the selected source: focusOnPreview(src)().
NavigationSelected ==
    /\ AppRunning
    /\ focus.on = "navigation"
    /\ pending' = pending \cup { Update("focus", SelectedSource) }
    /\ UNCHANGED << SelectedSource, PreviewPosition, focus, crashed >>
    /\ tuiUnchangedByKey

\* A grid filled column by column.
GridItemsByColumn(src, cards, cols) ==
    { [card |-> CardAt(src, i), row |-> i % cols, column |-> i \div cols] :
        i \in 0..(cards.n - 1) }

\* The items DrawPreviewGrid adds for a slice: card i at row i / NumOfCols,
\* column i % NumOfCols.
GridItems(src, cards, cols) ==
    { [card |-> CardAt(src, i), row |-> i \div cols, column |-> i % cols] :
        i \in 0..(cards.n - 1) }

\* The event loop runs one queued closure.
RunUpdate(u) ==
    /\ AppRunning
    /\ u \in pending
    /\ pending' = pending \ { u }
    /\ IF u.kind = "draw" THEN
            /\ Preview' = GridItems(SelectedSource, PrimsOf(SelectedSource), NumOfCols)
            /\ LastUpdated' = now
            /\ UNCHANGED focus
       ELSE IF u.kind = "error" THEN
            /\ Preview' = {}
            /\ UNCHANGED << LastUpdated, focus >>
       ELSE
            /\ focus' = IF PrimsOf(u.src).n > 0
                           THEN FocusCard(CardAt(u.src, 0))
                           ELSE FocusPreview
            /\ UNCHANGED << Preview, LastUpdated >>
    /\ UNCHANGED << NumOfRows, NumOfCols, started, CollectionPrims, WishlistPrims,
                    OrderPrims, SelectedSource, PreviewPosition, loaders, tickC, now,
                    crashed, authVars, cryptoVars, cardVars, mapVars >>

\* What a request for a list and the building of its cards come to: the
\* request fails, the deadline of the load passes while the cards are built,
\* or n cards are built.
RequestFailed == -1

DeadlinePassed == -2

LoadOutcomes == { RequestFailed, DeadlinePassed } \cup (0..MaxCards)

\* The same for the wishlist and the orders, whose lists come empty or full.
ListOutcomes == { RequestFailed, DeadlinePassed, 0, MaxCards }

\* The goroutine of New ends after its load; the ticker goroutine goes back
\* to its select.
Finished(l) == IF l = "initial" THEN [pc |-> "done"] ELSE IdleLoader

\* A caller that shows the error and draws nothing after a load that
\* returned nil.
CallerNeverDraws(err) == ErrorUpdate

\* What the caller of the load queues when it returns: showError(err), or
\* DrawPreviewGrid after nil.
QueuedAfterLoad(err) == IF err THEN ErrorUpdate ELSE DrawUpdate

tuiUnchangedByLoad ==
    UNCHANGED << NumOfRows, NumOfCols, started, SelectedSource, PreviewPosition,
                 LastUpdated, focus, tickC, now, crashed, authVars, cryptoVars, cardVars, mapVars >>

\* LoadDataWithContext begins: t.Preview.Clear(), on the caller's goroutine.
LoadBegin(l) ==
    /\ ~crashed
    /\ loaders[l].pc = "begin"
    /\ Preview' = {}
    /\ loaders' = [loaders EXCEPT ![l].pc = "collection"]
    /\ UNCHANGED << CollectionPrims, WishlistPrims, OrderPrims, pending >>
    /\ tuiUnchangedByLoad

\* GetCollection and the collection cards.  An error is shown (showError,
\* here and again by the caller) and ends the load.
LoadCollection(l) ==
    /\ ~crashed
    /\ loaders[l].pc = "collection"
    /\ \E r \in LoadOutcomes :
        IF r < 0 THEN
            /\ pending' = pending \cup { QueuedAfterLoad(TRUE) }
            /\ loaders' = [loaders EXCEPT ![l] = Finished(l)]
            /\ UNCHANGED CollectionPrims
        ELSE
            /\ CollectionPrims' = Cards(r)
            /\ loaders' = [loaders EXCEPT ![l].pc = "wishlist"]
            /\ UNCHANGED pending
    /\ UNCHANGED << WishlistPrims, OrderPrims, Preview >>
    /\ tuiUnchangedByLoad

\* GetWishlist and the wishlist cards.  A failed request leaves an empty
\* slice and the load goes on; a passed deadline ends the load.
LoadWishlist(l) ==
    /\ ~crashed
    /\ loaders[l].pc = "wishlist"
    /\ \E r \in ListOutcomes :
        IF r = DeadlinePassed THEN
            /\ pending' = pending \cup { QueuedAfterLoad(TRUE) }
            /\ loaders' = [loaders EXCEPT ![l] = Finished(l)]
            /\ UNCHANGED WishlistPrims
        ELSE
            /\ WishlistPrims' = IF r = RequestFailed THEN NoCards
                                ELSE Cards(r)
            /\ loaders' = [loaders EXCEPT ![l].pc = "orders"]
            /\ UNCHANGED pending
    /\ UNCHANGED << CollectionPrims, OrderPrims, Preview >>
    /\ tuiUnchangedByLoad

\* GetOrders and the order cards, then the return of the load: the caller
\* calls DrawPreviewGrid.
LoadOrders(l) ==
    /\ ~crashed
    /\ loaders[l].pc = "orders"
    /\ \E r \in ListOutcomes :
        IF r = DeadlinePassed THEN
            /\ pending' = pending \cup { QueuedAfterLoad(TRUE) }
            /\ UNCHANGED OrderPrims
        ELSE
            /\ OrderPrims' = IF r = RequestFailed THEN NoCards
                             ELSE Cards(r)
            /\ pending' = pending \cup { QueuedAfterLoad(FALSE) }
    /\ loaders' = [loaders EXCEPT ![l] = Finished(l)]
    /\ UNCHANGED << CollectionPrims, WishlistPrims, Preview >>
    /\ tuiUnchangedByLoad

tuiUnchangedByStart ==
    UNCHANGED << NumOfRows, NumOfCols, CollectionPrims, WishlistPrims, OrderPrims,
                 SelectedSource, PreviewPosition, LastUpdated, Preview, focus,
                 loaders, pending, tickC, now, crashed, authVars, cryptoVars, cardVars, mapVars >>

\* Start: the ticker goroutine that redraws, then App.Run.
Start ==
    /\ started = "no"
    /\ started' = "Start"
    /\ tuiUnchangedByStart

\* StartWithContext: the ticker goroutine that reloads, then App.Run.
StartWithContext ==
    /\ started = "no"
    /\ started' = "StartWithContext"
    /\ tuiUnchangedByStart

\* A period of the ticker passes: a tick is put into ticker.C, or dropped
\* when one is waiting there.
Tick ==
    /\ started # "no" /\ ~crashed
    /\ now < MaxTicks
    /\ now' = now + 1
    /\ tickC' = 1
    /\ UNCHANGED << NumOfRows, NumOfCols, started, CollectionPrims, WishlistPrims,
                    OrderPrims, SelectedSource, PreviewPosition, LastUpdated, Preview,
                    focus, loaders, pending, crashed, authVars, cryptoVars, cardVars, mapVars >>

\* time.Since(t.LastUpdated) >= updateFreq, read by the ticker goroutine: it
\* holds for the zero time and after two periods, fails within the period of
\* the draw, and depends on the instants in between.
UpdateDue ==
    IF LastUpdated = ZeroTime \/ now - LastUpdated >= 2 THEN { TRUE }
    ELSE IF now - LastUpdated = 1 THEN BOOLEAN
    ELSE { FALSE }

\* The ticker goroutine takes a tick.  When an update is due, the one of
\* Start queues a redraw, the one of StartWithContext calls
\* LoadDataWithContext.
TickerReceive ==
    /\ started # "no" /\ ~crashed
    /\ tickC = 1
    /\ loaders["ticker"].pc = "idle"
    /\ tickC' = 0
    /\ \E due \in UpdateDue :
        IF ~due THEN UNCHANGED << pending, loaders >>
        ELSE IF started = "Start" THEN
            /\ pending' = pending \cup { DrawUpdate }
            /\ UNCHANGED loaders
        ELSE
            /\ loaders' = [loaders EXCEPT !["ticker"].pc = "begin"]
            /\ UNCHANGED pending
    /\ UNCHANGED << NumOfRows, NumOfCols, started, CollectionPrims, WishlistPrims,
                    OrderPrims, SelectedSource, PreviewPosition, LastUpdated, Preview,
                    focus, now, crashed, authVars, cryptoVars, cardVars, mapVars >>

\* tui.New has returned: the grid is configured, nothing is loaded, and the
\* goroutine of the first load has been started.
TuiNew ==
    /\ NumOfRows \in 1..MaxRows
    /\ NumOfCols \in 1..MaxCols
    /\ started = "no"
    /\ CollectionPrims = NoCards /\ WishlistPrims = NoCards /\ OrderPrims = NoCards
    /\ SelectedSource = CollectionSource
    /\ PreviewPosition = << 0, 0 >>
    /\ LastUpdated = ZeroTime
    /\ Preview = {}
    /\ focus = FocusNavigation
    /\ loaders = [l \in Loaders |->
                    IF l = "initial" THEN [pc |-> "begin"] ELSE IdleLoader]
    /\ pending = {}
    /\ tickC = 0
    /\ now = 0
    /\ crashed = FALSE

InitTui == AuthIdle /\ CryptoIdle /\ CardsIdle /\ MapIdle /\ TuiNew

\* The user at the keyboard of an application run by Start, while the load
\* of New goes on.
NextTui ==
    \/ Start
    \/ \E k \in ArrowKeys : KeyArrow(k)
    \/ KeyMenu
    \/ KeyPreview
    \/ \E src \in Sources : NavigationChanged(src)
    \/ NavigationSelected
    \/ \E u \in pending : RunUpdate(u)
    \/ \E l \in Loaders : LoadBegin(l)
    \/ \E l \in Loaders : LoadCollection(l)
    \/ \E l \in Loaders : LoadWishlist(l)
    \/ \E l \in Loaders : LoadOrders(l)

SpecTui == InitTui /\ [][NextTui]_vars

\* The goroutines of an application run by Start or by StartWithContext:
\* the load of New, the ticker, the event loop.
NextRefresh ==
    \/ Start
    \/ StartWithContext
    \/ Tick
    \/ TickerReceive
    \/ \E u \in pending : RunUpdate(u)
    \/ \E l \in Loaders : LoadBegin(l)
    \/ \E l \in Loaders : LoadCollection(l)
    \/ \E l \in Loaders : LoadWishlist(l)
    \/ \E l \in Loaders : LoadOrders(l)

SpecRefresh == InitTui /\ [][NextRefresh]_vars

\* One step of LoadDataWithContext on goroutine l.
LoadStep(l) == LoadBegin(l) \/ LoadCollection(l) \/ LoadWishlist(l) \/ LoadOrders(l)

\* The start-up of main: the load of New, Start and its ticker, the event
\* loop, and the user moving through the menu of sources.
NextStartup ==
    \/ Start
    \/ Tick
    \/ TickerReceive
    \/ \E src \in Sources : NavigationChanged(src)
    \/ \E u \in pending : RunUpdate(u)
    \/ \E l \in Loaders : LoadStep(l)

\* main calls Start right after New; the goroutine of New runs, and each of
\* its requests ends with an answer or with the deadline of the load; the
\* event loop, once it runs, takes every closure queued for it.
FairStartup ==
    /\ WF_vars(Start)
    /\ WF_vars(LoadStep("initial"))
    /\ WF_vars(RunUpdate(DrawUpdate))
    /\ WF_vars(RunUpdate(ErrorUpdate))

\* The number of rows plays no part in the load or the draw.
InitStartup == InitTui /\ NumOfRows = 1

SpecStartup == InitStartup /\ [][NextStartup]_vars /\ FairStartup

-----------------------------------------------------------------------------
(* One call of LoadDataWithContext, card by card (SpecCards)               *)

MaxModels == 2

\* What the request for a model's thumbnail gives during the load: a JPEG,
\* no answer or a status other than 200, or a body jpeg.Decode refuses.
ThumbOutcomes == { "image", "get_failed", "decode_failed" }

\* An entry of a list in a response: basic_information.title, and
\* basic_information.thumb by what that URL serves.
Entry(list, i, th) == [title |-> << list, i >>, thumb |-> th]

\* The lists of up to MaxModels entries a response can carry in one field.
EntryLists(list) ==
    UNION { { [i \in 1..n |-> Entry(list, i, th[i])] : th \in [1..n -> ThumbOutcomes] } :
              n \in 0..MaxModels }

\* The orders field of a response: no order, or one.
OrderLists == { << >>, << Entry("orders", 1, "image") >> }

\* A response body by its list fields; a field the body lacks is empty.
Answer(releases, wants, orders) ==
    [got |-> TRUE, err |-> FALSE, releases |-> releases, wants |-> wants, orders |-> orders]

\* c.Get failed, or the body is not JSON.
NoAnswer ==
    [got |-> TRUE, err |-> TRUE, releases |-> << >>, wants |-> << >>, orders |-> << >>]

\* What the endpoint of a source can answer.  The server decides the body:
\* the answer of the orders endpoint is taken with and without a wants field.
Bodies(src) ==
    { NoAnswer } \cup
    ( IF src = CollectionSource THEN
          { Answer(r, << >>, << >>) : r \in EntryLists("releases") }
      ELSE IF src = WishlistSource THEN
          { Answer(<< >>, w, << >>) : w \in EntryLists("wants") }
      ELSE
          { Answer(<< >>, w, o) : w \in EntryLists("wants"), o \in OrderLists } )

\* Decoding a body into each DTO keeps the field the DTO names.
CollectionBaseDto(b) == [Releases |-> b.releases]

WishlistBaseDto(b) == [Wants |-> b.wants]

OrdersBaseDto(b) == [Orders |-> b.orders]

ReleaseModel(e) == [Title |-> e.title, ThumbUrl |-> e.thumb]

MapCollectionReleases(releases) ==
    [i \in 1..Len(releases) |-> ReleaseModel(releases[i])]

MapWishlistReleases(releases) ==
    [i \in 1..Len(releases) |-> ReleaseModel(releases[i])]

GotModels(m) == [got |-> TRUE, err |-> FALSE, models |-> m]

GetFailed == [got |-> TRUE, err |-> TRUE, models |-> << >>]

GetCollection(b) ==
    IF b.err THEN GetFailed
    ELSE GotModels(MapCollectionReleases(CollectionBaseDto(b).Releases))

GetWishlist(b) ==
    IF b.err THEN GetFailed
    ELSE GotModels(MapWishlistReleases(WishlistBaseDto(b).Wants))

\* GetOrders decodes the body of the orders endpoint into a WishlistBaseDto.
GetOrders(b) ==
    IF b.err THEN GetFailed
    ELSE GotModels(MapWishlistReleases(WishlistBaseDto(b).Wants))

GetList(src, b) ==
    IF src = CollectionSource THEN GetCollection(b)
    ELSE IF src = WishlistSource THEN GetWishlist(b)
    ELSE GetOrders(b)

\* A *tview.Flex: nil, or a card with or without an image item, its text and
\* its border title.
NilCard == [nil |-> TRUE, image |-> FALSE, text |-> << >>, title |-> << >>]

FlexCard(image, text) ==
    [nil |-> FALSE, image |-> image, text |-> text, title |-> "Release"]

createTextOnlyCard(model) == FlexCard(FALSE, model.Title)

\* A card builder that gives up when the thumbnail does.
createReleaseCardWithoutFallback(model) ==
    IF model.ThumbUrl # "image"
        THEN [card |-> NilCard, err |-> FALSE]
        ELSE [card |-> FlexCard(TRUE, model.Title), err |-> FALSE]

\* createReleaseCardPrimitiveWithContext: the text-only card when
\* GetThumbImageWithContext fails, the card with the image otherwise; its
\* error is always nil.
createReleaseCardPrimitiveWithContext(model) ==
    IF model.ThumbUrl # "image"
        THEN [card |-> createTextOnlyCard(model), err |-> FALSE]
        ELSE [card |-> FlexCard(TRUE, model.Title), err |-> FALSE]

SetTitle(card, title) == [card EXCEPT !.title = title]

\* Where LoadDataWithContext goes after the list of src.
NextList(src) ==
    IF src = OrdersSource THEN LoadAt(src, "done") ELSE LoadAt(src + 1, "get")

\* A load that returns the error of any list, as it does for the collection.
AbortOnListFailure(src) == LoadAt(src, "failed")

\* After a failed GetWishlist or GetOrders the load goes on with the next
\* list.
AfterListFailure(src) == NextList(src)

\* A call of showError or showWarning for the list of src (showMessage, the
\* progress lines, is left out).
Shown(kind, src) == [kind |-> kind, src |-> src]

\* The slices an earlier load left: one card each.
EarlierPrims ==
    [src \in Sources |-> << SetTitle(FlexCard(FALSE, << "earlier", src >>),
                                     << "earlier", src >>) >>]

cardsUnchanged == UNCHANGED << authVars, cryptoVars, tuiVars, mapVars >>

\* LoadDataWithContext is called: t.Preview.Clear(), of a preview that is
\* empty here, and the load context.
CardsBegin ==
    /\ loadPc = LoadAt(CollectionSource, "idle")
    /\ loadPc' = LoadAt(CollectionSource, "get")
    /\ UNCHANGED << loadCtxDone, respBody, fetched, loopIdx, built, prims, shown >>
    /\ cardsUnchanged

\* GetCollection, GetWishlist or GetOrders and what follows an error: the
\* load returns for the collection, the list becomes empty for the others.
CardsGet(src) ==
    /\ loadPc = LoadAt(src, "get")
    /\ \E b \in Bodies(src) :
        LET r == GetList(src, b) IN
        /\ respBody' = [respBody EXCEPT ![src] = b]
        /\ fetched' = [fetched EXCEPT ![src] = r]
        /\ IF r.err /\ src = CollectionSource THEN
               /\ loadPc' = LoadAt(src, "failed")
               /\ shown' = Append(shown, Shown("error", src))
               /\ UNCHANGED prims
           ELSE IF r.err THEN
               /\ loadPc' = AfterListFailure(src)
               /\ shown' = Append(shown, Shown("warning", src))
               /\ prims' = [prims EXCEPT ![src] = << >>]
           ELSE
               /\ loadPc' = LoadAt(src, "loop")
               /\ UNCHANGED << prims, shown >>
    /\ loopIdx' = 0
    /\ built' = << >>
    /\ UNCHANGED loadCtxDone
    /\ cardsUnchanged

\* One round of the range loop over the fetched models, or its end and the
\* assignment of the slice to t.CollectionPrims, t.WishlistPrims or
\* t.OrderPrims.
CardsLoop(src) ==
    /\ loadPc = LoadAt(src, "loop")
    /\ LET models == fetched[src].models IN
       IF loopIdx >= Len(models) THEN
           /\ prims' = [prims EXCEPT ![src] = built]
           /\ loadPc' = NextList(src)
           /\ UNCHANGED << loopIdx, built >>
       ELSE IF loadCtxDone THEN
           /\ loadPc' = LoadAt(src, "cancelled")
           /\ UNCHANGED << loopIdx, built, prims >>
       ELSE
           LET model == models[loopIdx + 1]
               r == createReleaseCardPrimitiveWithContext(model)
               card == IF r.err THEN createTextOnlyCard(model) ELSE r.card
           IN  /\ built' = IF card # NilCard
                               THEN Append(built, SetTitle(card, model.Title))
                               ELSE built
               /\ loopIdx' = loopIdx + 1
               /\ UNCHANGED << loadPc, prims >>
    /\ UNCHANGED << loadCtxDone, respBody, fetched, shown >>
    /\ cardsUnchanged

\* The two minutes of loadCtx pass, or the parent context is cancelled.
CardsCancel ==
    /\ loadPc.at \in { "get", "loop" }
    /\ ~loadCtxDone
    /\ loadCtxDone' = TRUE
    /\ UNCHANGED << loadPc, respBody, fetched, loopIdx, built, prims, shown >>
    /\ cardsUnchanged

\* The first load of a run, or a reload over the slices of an earlier one.
InitCards ==
    /\ AuthIdle /\ CryptoIdle /\ TuiIdle /\ MapIdle
    /\ loadPc = LoadAt(CollectionSource, "idle")
    /\ loadCtxDone = FALSE
    /\ respBody = [src \in Sources |-> NoBody]
    /\ fetched = [src \in Sources |-> NotFetched]
    /\ loopIdx = 0
    /\ built = << >>
    /\ prims \in { [src \in Sources |-> << >>], EarlierPrims }
    /\ shown = << >>

NextCards ==
    \/ CardsBegin
    \/ \E src \in Sources : CardsGet(src)
    \/ \E src \in Sources : CardsLoop(src)
    \/ CardsCancel

SpecCards == InitCards /\ [][NextCards]_vars

-----------------------------------------------------------------------------
(* dto.MapCollectionReleases and dto.MapWishlistReleases as functions       *)
(* (SpecMap).  A string is a sequence of pieces here; the load above uses   *)
(* the Title and ThumbUrl these functions give for releases that have an    *)
(* artist and a label.                                                      *)

\* Longest list of releases tried.
MaxReleases == 2

\* strings.Join
RECURSIVE Join(_, _)
Join(elems, sep) ==
    IF Len(elems) = 0 THEN << >>
    ELSE IF Len(elems) = 1 THEN elems[1]
    ELSE elems[1] \o sep \o Join(Tail(elems), sep)

NoteDto(id, value) == [FieldId |-> id, Value |-> << value >>]

Named(name) == [Name |-> << name >>]

FormatDto(qty, name, descriptions) ==
    [Qty |-> << qty >>, Name |-> << name >>, Descriptions |-> descriptions]

\* The lists a release can carry: artists, labels and formats, none or some.
ArtistLists == { << >>, << Named("artist1") >>, << Named("artist1"), Named("artist2") >> }

LabelLists == { << >>, << Named("label1") >> }

FormatLists ==
    { << >>,
      << FormatDto("1", "Vinyl", << << "LP" >>, << "Album" >> >>),
         FormatDto("2", "CD", << >>) >> }

\* The notes of a collection entry: none; field 1; fields 2 and 1; field 3
\* and a field the mapping does not know; field 1 twice.
CollectionNotes ==
    { << >>,
      << NoteDto(1, "mint") >>,
      << NoteDto(2, "good"), NoteDto(1, "mint") >>,
      << NoteDto(3, "signed"), NoteDto(4, "other") >>,
      << NoteDto(1, "mint"), NoteDto(1, "fair") >> }

\* The notes of a wishlist entry: a string.
WishlistNotes == { << >>, << "wanted" >> }

ReleaseDto(title, notes, formats, artists, labels) ==
    [Rating |-> 3,
     Notes |-> notes,
     BasicInformation |->
        [Title |-> << title >>, Year |-> 1999, Thumb |-> << "thumb:", title >>,
         Formats |-> formats, Artists |-> artists, Labels |-> labels,
         Genres |-> << << "Rock" >>, << "Pop" >> >>, Styles |-> << >>]]

ReleasesWith(noteSet) ==
    { ReleaseDto(t, n, f, a, l) :
        t \in { "title1", "title2" }, n \in noteSet, f \in FormatLists,
        a \in ArtistLists, l \in LabelLists }

\* The lists of up to MaxReleases releases.
ReleaseLists(noteSet) ==
    UNION { [1..n -> ReleasesWith(noteSet)] : n \in 0..MaxReleases }

MapInputs ==
    { [fn |-> "MapCollectionReleases", releases |-> r] : r \in ReleaseLists(CollectionNotes) }
    \cup
    { [fn |-> "MapWishlistReleases", releases |-> r] : r \in ReleaseLists(WishlistNotes) }

\* fmt.Sprintf("%sx %s: %s", format.Qty, format.Name, Join(Descriptions, "-"))
FormatString(format) ==
    format.Qty \o << "x " >> \o format.Name \o << ": " >>
        \o Join(format.Descriptions, << "-" >>)

\* tmp.Format: the format strings joined with "\n\t".
FormatsOf(release) ==
    Join([j \in 1..Len(release.BasicInformation.Formats) |->
             FormatString(release.BasicInformation.Formats[j])], << "\n\t" >>)

\* The loop over release.Notes from note j on: the switch on note.FieldId.
RECURSIVE ApplyNotes(_, _, _)
ApplyNotes(tmp, notes, j) ==
    IF j > Len(notes) THEN tmp
    ELSE LET note == notes[j]
             next == IF note.FieldId = 1 THEN [tmp EXCEPT !.MediaCondition = note.Value]
                     ELSE IF note.FieldId = 2 THEN [tmp EXCEPT !.SleeveCondition = note.Value]
                     ELSE IF note.FieldId = 3 THEN [tmp EXCEPT !.Note = note.Value]
                     ELSE tmp
         IN  ApplyNotes(next, notes, j + 1)

\* Artists[0] or Labels[0] of a release: an index out of range when the list
\* is empty.
IndexPanics(release) ==
    \/ Len(release.BasicInformation.Artists) = 0
    \/ Len(release.BasicInformation.Labels) = 0

\* The composite literal both functions start from.
TmpModel(release, note) ==
    [Title |-> release.BasicInformation.Title,
     Rating |-> release.Rating,
     Year |-> release.BasicInformation.Year,
     Artist |-> release.BasicInformation.Artists[1].Name,
     Label |-> release.BasicInformation.Labels[1].Name,
     Genre |-> Join(release.BasicInformation.Genres, << ", " >>),
     Style |-> Join(release.BasicInformation.Styles, << ", " >>),
     MediaCondition |-> << >>,
     SleeveCondition |-> << >>,
     Note |-> note,
     ThumbUrl |-> release.BasicInformation.Thumb,
     Format |-> << >>]

\* The goroutine died of a run-time panic: nothing is returned.
Panicked == [done |-> TRUE, panic |-> TRUE]

Mapped(data) == [done |-> TRUE, panic |-> FALSE, err |-> FALSE, data |-> data]

dtoMapCollectionReleases(releases) ==
    IF \E i \in 1..Len(releases) : IndexPanics(releases[i]) THEN Panicked
    ELSE Mapped([i \in 1..Len(releases) |->
            [ApplyNotes(TmpModel(releases[i], << >>), releases[i].Notes, 1)
                EXCEPT !.Format = FormatsOf(releases[i])]])

dtoMapWishlistReleases(releases) ==
    IF \E i \in 1..Len(releases) : IndexPanics(releases[i]) THEN Panicked
    ELSE Mapped([i \in 1..Len(releases) |->
            [TmpModel(releases[i], releases[i].Notes)
                EXCEPT !.Format = FormatsOf(releases[i])]])

mapUnchanged == UNCHANGED << mapIn, authVars, cryptoVars, tuiVars, cardVars >>

MapCollectionCall ==
    /\ mapIn.fn = "MapCollectionReleases"
    /\ ~mapOut.done
    /\ mapOut' = dtoMapCollectionReleases(mapIn.releases)
    /\ mapUnchanged

MapWishlistCall ==
    /\ mapIn.fn = "MapWishlistReleases"
    /\ ~mapOut.done
    /\ mapOut' = dtoMapWishlistReleases(mapIn.releases)
    /\ mapUnchanged

InitMap ==
    /\ AuthIdle /\ CryptoIdle /\ TuiIdle /\ CardsIdle
    /\ mapIn \in MapInputs
    /\ mapOut = NotMapped

NextMap ==
    \/ MapCollectionCall
    \/ MapWishlistCall

SpecMap == InitMap /\ [][NextMap]_vars

-----------------------------------------------------------------------------
(* Properties of the client start-up                                       *)

\* A token pair with both parts non-empty.
Whole(t) == ~t.nil /\ t.Token # EmptyStr /\ t.TokenSecret # EmptyStr

\* What the storage file holds for this configuration: nothing loadable, or
\* a pair with both parts.
StoredPairWhole ==
    LET l == LoadResult(file, env.consumerSecretKey)
    IN  l.err \/ Whole(l.token)

\* The history has the entry x.
InLog(x) == \E i \in 1..Len(log) : log[i] = x

\* How often the history has the entry x.
Count(x) == Cardinality({ i \in 1..Len(log) : log[i] = x })

\* C1: in every reachable state of the start-up, c.token is nil or has both
\* token and token secret non-empty, and the record in the storage file, when
\* there is one the program can load, has both non-empty; whether the pair
\* came from the file, from the environment or from a handshake.
C1_TokenPairAllOrNothing ==
    /\ token = NoToken \/ Whole(token)
    /\ StoredPairWhole

\* A pair obtained through a handshake is in memory and in the file.
C1_Witness ==
    /\ InLog("handshake_ok") /\ InLog("write")
    /\ Whole(token)
    /\ ~LoadResult(file, env.consumerSecretKey).err

\* Identity checks answered so far in this run.
Verifications == Count("verify_ok") + Count("verify_fail")

\* Handshakes started after the first failed identity check.
HandshakesAfterFailure ==
    Cardinality({ i \in 1..Len(log) :
                    /\ log[i] = "handshake"
                    /\ \E j \in 1..(i - 1) : log[j] = "verify_fail" })

\* C2: a run of NewWithContext checks the identity at most twice and starts
\* at most one handshake after a failed check, at most two in all; when the
\* check after re-authentication fails, NewWithContext has returned an error
\* and that failure is the last thing it did.
C2_SingleReauthentication ==
    /\ Verifications <= 2
    /\ Count("handshake") <= 2
    /\ HandshakesAfterFailure <= 1
    /\ Count("verify_fail") = 2 =>
          /\ result.returned /\ ~result.ok
          /\ log[Len(log)] = "verify_fail"

\* Both identity checks of a run failed, the second after a handshake.
C2_Witness ==
    /\ Count("verify_fail") = 2
    /\ HandshakesAfterFailure = 1
    /\ result.returned

\* C3: in the handshake that follows a failed identity check, a callback
\* with that handshake's request token and a verifier is let in by
\* handleRedirect, whatever happened before in the process.
C3_ReauthCallbackAccepted == ~refused

\* C4: the callback listener is open only while NewWithContext waits in the
\* select of a handshake; once it has returned, no listener is open and no
\* server goroutine can still open one.
C4_ListenerOnlyDuringHandshake ==
    /\ server = "listening" => pc = "wait"
    /\ result.returned => server \notin {"spawned", "listening"}

\* A handshake whose server answered a callback has returned and
\* NewWithContext with it.
C4_Witness ==
    /\ result.returned
    /\ server = "closed"
    /\ \E h \in Handlers : handlers[h].pc = "done"

\* C5: the step by which NewWithContext returns a nil error leaves a client
\* with a token, with the signing transport, and whose last identity request,
\* signed with exactly that token, was answered 200.
C5_SuccessMeansVerified ==
    [][ (~result.returned /\ result'.returned /\ result'.ok) =>
            /\ token' # NoToken
            /\ transport'
            /\ verifiedWith' = token'
            /\ identity' = StrUser
            /\ log'[Len(log')] = "verify_ok" ]_vars

\* The stored pair was loaded and the first identity check passed.
StoredPairVerified ==
    /\ Len(log) > 0 /\ log[1] = "load_ok"
    /\ InLog("verify_ok") /\ ~InLog("verify_fail")

\* C6: when the storage file holds a pair that decrypts with the current
\* consumer secret and the identity check passes, NewWithContext has returned
\* a client without a handshake, without a callback server, and with the
\* file still holding what was loaded.
C6_StoredTokensReused ==
    StoredPairVerified =>
        /\ result.returned /\ result.ok
        /\ ~InLog("handshake") /\ nRequest = 0
        /\ server = "none"
        /\ ~InLog("save") /\ ~InLog("write")
        /\ LoadResult(file, env.consumerSecretKey).token = token

\* A run that reused the stored pair.
C6_Witness == StoredPairVerified /\ result.ok /\ token = StoredToken

\* Neither the storage file nor the environment gave a pair.
FirstRun == Len(log) > 0 /\ log[1] = "load_fail" /\ ~InLog("env")

\* C9: on a run without stored token and without token in the environment,
\* the look for existing tokens comes before any handshake, a save comes
\* right after a completed handshake, an identity check comes right after
\* the save, and data is requested only right after a check that passed.
C9_FirstRunOrder ==
    FirstRun =>
        \A i \in 2..Len(log) :
            /\ log[i] = "save" => log[i - 1] = "handshake_ok"
            /\ log[i] = "handshake_ok" =>
                  (i < Len(log) => log[i + 1] = "save")
            /\ log[i] \in {"verify_ok", "verify_fail"} =>
                  log[i - 1] \in {"save", "write"}
            /\ log[i] = "data" => log[i - 1] = "verify_ok"

\* A first run that went through handshake, save and check to the data.
C9_Witness == FirstRun /\ InLog("handshake_ok") /\ InLog("write") /\ InLog("data")

-----------------------------------------------------------------------------
(* Properties of the token storage                                         *)

\* What was loaded is what was saved.
RoundTrip == ~cOut.err /\ cOut.token = cIn.token

\* C7 as stated: for every token pair, consumer secret and nonce, loading
\* what saveTokensSecurely stored returns exactly the saved token and secret.
C7_RoundTripEveryPair == cOut.done => RoundTrip

\* C7: for every pair whose token and token secret are valid UTF-8, every
\* consumer secret and every nonce, loading what saveTokensSecurely stored
\* returns exactly the saved token and secret.
C7_RoundTripValidUTF8 ==
    (cOut.done /\ ValidUTF8(cIn.token.Token) /\ ValidUTF8(cIn.token.TokenSecret))
        => RoundTrip

\* A pair with characters JSON escapes, saved under a consumer secret longer
\* than the key, came back.
C7_Witness ==
    /\ cOut.done /\ RoundTrip
    /\ cIn.token.Token = << 34, 60 >>
    /\ cIn.token.TokenSecret = << 226, 128, 168 >>
    /\ Len(cIn.secret) > KeyLen

-----------------------------------------------------------------------------
(* Properties of the terminal UI                                           *)

\* The values PreviewPosition takes under arrow keys from the positions of
\* seen, for a slice of n cards that does not change.
RECURSIVE PositionsFrom(_, _, _, _)
PositionsFrom(seen, rows, cols, n) ==
    LET more == seen \cup { PositionAfter(p, k, rows, cols, n) :
                               p \in seen, k \in ArrowKeys }
    IN  IF more = seen THEN seen ELSE PositionsFrom(more, rows, cols, n)

\* The indices of the cards that arrow keys focus, starting at (0,0).
Navigable(rows, cols, n) ==
    { PrimIndex(p) : p \in PositionsFrom({ << 0, 0 >> }, rows, cols, n) }

\* The grid shows the selected source, the focus is in it, at (0,0).
AtOrigin ==
    /\ ~crashed
    /\ PreviewHasFocus
    /\ PreviewPosition = << 0, 0 >>
    /\ Preview = GridItems(SelectedSource, PrimsOf(SelectedSource), NumOfCols)

\* C8: for every grid configuration and every length of the selected list,
\* each card of the list can be focused by some sequence of arrow keys
\* pressed from PreviewPosition (0,0) with the preview focused.
C8_EveryCardNavigable ==
    AtOrigin =>
        \A i \in 0..(PrimsOf(SelectedSource).n - 1) :
            i \in Navigable(NumOfRows, NumOfCols, PrimsOf(SelectedSource).n)

\* The loads that have begun and not returned.
RunningLoads == { l \in Loaders : loaders[l].pc \notin { "idle", "done" } }

\* C10: at every moment at most one load is running, counting the load
\* started by New and the refresh of the ticker goroutine of Start or of
\* StartWithContext.
C10_SingleLoader == Cardinality(RunningLoads) <= 1

-----------------------------------------------------------------------------
(* Properties of the configuration check and of the token sources          *)

\* The first of consumer key, consumer secret and LOCAL_PORT that is not
\* set, as the error that names it; "" when all three are set.
FirstMissing(e) ==
    IF e.consumerKey = EmptyStr THEN "ErrMissingConsumerKey"
    ELSE IF e.consumerSecretKey = EmptyStr THEN "ErrMissingConsumerSecret"
    ELSE IF e.localPort = EmptyStr THEN "ErrMissingLocalPort"
    ELSE ""

\* C11: when the consumer key, the consumer secret or LOCAL_PORT is missing,
\* NewWithContext returns the error of the first one missing, in that order,
\* and no client; until then and after, the token storage was not read, no
\* handshake was started, no listener was opened and no request was sent.
C11_ConfigValidatedFirst ==
    FirstMissing(env) # "" =>
        /\ pc \in {"init", "returned", "exit"}
        /\ result.returned =>
              /\ ~result.ok
              /\ result.err = FirstMissing(env)
        /\ log = << >>
        /\ server = "none"
        /\ nRequest = 0 /\ nAccess = 0
        /\ token = NoToken /\ ~transport
        /\ file \in InitialFiles

\* With key and secret set and LOCAL_PORT missing, NewWithContext returned
\* ErrMissingLocalPort although the storage held a loadable pair.
C11_Witness ==
    /\ result.returned
    /\ result.err = "ErrMissingLocalPort"
    /\ env.consumerKey # EmptyStr /\ env.consumerSecretKey # EmptyStr
    /\ file = WrittenFile(StoredToken, StrSecret, EarlierNonce)

\* The number a string of decimal digits writes.
PortNumber(p) ==
    LET RECURSIVE value(_)
        value(i) == IF i = 0 THEN 0 ELSE 10 * value(i - 1) + (p[i] - 48)
    IN  value(Len(p))

\* A port number: decimal digits that write a number of 1..65535.
ValidPort(p) ==
    /\ Len(p) > 0
    /\ \A i \in 1..Len(p) : IsDigit(p[i])
    /\ PortNumber(p) >= 1 /\ PortNumber(p) <= 65535

\* C12: with key, secret and LOCAL_PORT set and LOCAL_PORT not a port number,
\* NewWithContext starts no handshake and what it returns is
\* ErrInvalidLocalPort.
C12_InvalidPortRejected ==
    (FirstMissing(env) = "" /\ ~ValidPort(env.localPort)) =>
        /\ ~InLog("handshake")
        /\ result.returned => (~result.ok /\ result.err = "ErrInvalidLocalPort")

\* The step by which NewWithContext, its configuration accepted, settles
\* where the token comes from.
SourceSettled == pc = "init" /\ pc' \in {"verify", "generate"}

\* The step that starts a handshake before any identity check was answered.
FirstHandshakeStarts ==
    /\ Verifications = 0
    /\ Count("handshake") = 0
    /\ InLog("handshake")'

\* C13: the token is the stored pair when the storage file loads; otherwise
\* the pair of DISCOGS_TOKEN and DISCOGS_TOKEN_SECRET when both are set, and
\* a save of it is then attempted, leaving it in the file when the write
\* succeeds; otherwise no token, and a handshake is next.  Before the first
\* identity check a handshake starts only with no token from either source.
C13_TokenSourcePriority ==
    [][ /\ SourceSettled =>
            LET l == LoadResult(file, env.consumerSecretKey)
            IN  IF ~l.err /\ l.token # NoToken THEN
                    /\ token' = l.token
                    /\ file' = file
                    /\ pc' = "verify"
                    /\ log' = << "load_ok" >>
                ELSE IF env.token # EmptyStr /\ env.tokenSecret # EmptyStr THEN
                    /\ token' = MkToken(env.token, env.tokenSecret)
                    /\ pc' = "verify"
                    /\ InLog("save")'
                    /\ InLog("write")' =>
                          LoadResult(file', env.consumerSecretKey).token = token'
                    /\ ~InLog("write")' => file' = file
                ELSE
                    /\ token' = NoToken
                    /\ file' = file
                    /\ pc' = "generate"
        /\ FirstHandshakeStarts =>
            /\ token = NoToken
            /\ log = << "load_fail" >>
            /\ LoadResult(file, env.consumerSecretKey).token = NoToken
            /\ env.token = EmptyStr \/ env.tokenSecret = EmptyStr ]_vars

\* The storage did not load, the environment gave the pair, and the pair
\* is in the file.
C13_Witness ==
    /\ Len(log) >= 4 /\ log[1] = "load_fail" /\ log[2] = "env" /\ log[4] = "write"
    /\ token = EnvToken
    /\ LoadResult(file, env.consumerSecretKey).token = EnvToken
    /\ ~InLog("handshake")

-----------------------------------------------------------------------------
(* Properties of the data load                                             *)

\* LoadDataWithContext has assigned the slice of src.
Stored(src) == loadPc.src > src \/ loadPc.at = "done"

\* C14: every list LoadDataWithContext fetched and assigned has exactly one
\* card per model, in the order of the models, none nil, the card without an
\* image wherever the thumbnail could not be fetched or decoded; the load
\* returns early only when GetCollection fails or loadCtx is done.
C14_OneCardPerModel ==
    /\ \A src \in Sources :
          (Stored(src) /\ ~fetched[src].err) =>
              LET m == fetched[src].models
                  c == prims[src]
              IN  /\ Len(c) = Len(m)
                  /\ \A i \in 1..Len(m) :
                        /\ c[i] # NilCard
                        /\ c[i].title = m[i].Title
                        /\ c[i].text = m[i].Title
                        /\ c[i].image <=> m[i].ThumbUrl = "image"
    /\ loadPc.at = "failed" =>
          loadPc.src = CollectionSource /\ fetched[CollectionSource].err
    /\ loadPc.at = "cancelled" => loadCtxDone

\* A load that ran to its end with thumbnails that failed both ways and one
\* that did not.
C14_Witness ==
    /\ loadPc.at = "done"
    /\ ~loadCtxDone
    /\ Len(prims[CollectionSource]) = 2
    /\ fetched[CollectionSource].models[1].ThumbUrl = "get_failed"
    /\ ~prims[CollectionSource][1].image
    /\ prims[CollectionSource][2].image
    /\ Len(prims[WishlistSource]) = 1
    /\ fetched[WishlistSource].models[1].ThumbUrl = "decode_failed"
    /\ Len(prims[OrdersSource]) = 1

\* C15: what GetOrders returns for a body of the orders endpoint is one
\* ReleaseModel per entry of the body's orders list, in the order of the list.
C15_OrdersFromOrdersField ==
    (fetched[OrdersSource].got /\ ~fetched[OrdersSource].err) =>
        fetched[OrdersSource].models =
            MapWishlistReleases(OrdersBaseDto(respBody[OrdersSource]).Orders)

-----------------------------------------------------------------------------
(* Properties of the callback handler                                      *)

\* Invocation h of handleRedirect takes the step that checks its query.
Validates(h) == handlers[h].pc = "flagged" /\ handlers'[h].pc # "flagged"

\* The query of invocation h names the request token of the handshake and
\* carries a verifier.
QueryValid(h) == handlers[h].tok = requestToken /\ handlers[h].verifier # EmptyStr

\* The error handleRedirect reports for the query of invocation h.
QueryError(h) ==
    IF handlers[h].tok # requestToken THEN "invalid OAuth token"
    ELSE "no verification code received"

\* C16: an invocation past the guard goes on to the access-token exchange
\* only when its oauth_token is the request token and its oauth_verifier is
\* not empty; otherwise it answers 400, leaves c.token, doneVerifying and the
\* number of exchanges as they are, and offers its error on the completion
\* channel, which takes it when it is empty.  An exchange is made only by an
\* invocation that went through the check with a verifier.
C16_CallbackValidated ==
    [][ /\ \A h \in Handlers :
              Validates(h) =>
                  IF QueryValid(h) THEN
                      /\ handlers'[h].pc = "exchange"
                      /\ UNCHANGED << token, doneVerifying, nAccess, oauthComplete >>
                  ELSE
                      /\ handlers'[h] = DoneHandler(400)
                      /\ UNCHANGED << token, doneVerifying, nAccess >>
                      /\ oauthComplete' =
                            IF Len(oauthComplete) = 0 THEN << QueryError(h) >>
                            ELSE oauthComplete
        /\ nAccess' # nAccess =>
              \E h \in Handlers :
                  /\ handlers[h].pc = "exchange"
                  /\ handlers'[h].pc = "signal"
                  /\ handlers[h].verifier # EmptyStr ]_vars

\* A callback without verifier was answered 400 and its error is on the
\* channel; no exchange was made.
C16_Witness ==
    /\ pc = "wait"
    /\ oauthComplete = << "no verification code received" >>
    /\ \E h \in Handlers : handlers[h] = DoneHandler(400)
    /\ nAccess = 0 /\ token = NoToken /\ ~doneVerifying

\* The invocations of handleRedirect that are past its guard and have not
\* returned.
PastGuard ==
    { h \in Handlers : handlers[h].pc \in { "passed", "flagged", "exchange", "signal" } }

\* C17: at every moment at most one invocation of handleRedirect is past the
\* guard on handlingRedirect and doneVerifying.
C17_OneCallbackPastGuard == Cardinality(PastGuard) <= 1

\* C18: whenever generateDiscogsTokenWithContext has returned nil, c.token is
\* not nil, so the saveTokensSecurely that follows has a token to save.
C18_SuccessHasToken == pc = "save" => token # NoToken

\* NewWithContext has returned the error of a failed handshake.
HandshakeFailed ==
    /\ result.returned /\ ~result.ok
    /\ Len(log) > 0 /\ log[Len(log)] = "handshake_err"

\* C19: whenever generateDiscogsTokenWithContext has returned an error,
\* c.token is nil: the handshake that failed has not set it.
C19_FailureLeavesNoToken == HandshakeFailed => token = NoToken

\* The process has not been ended by main after an error of NewWithContext.
ProcessRuns == ~(result.returned /\ ~result.ok)

\* The next step of invocation h of handleRedirect, whichever it is.
HandlerStep(h) ==
    HandleSetFlag(h) \/ HandleValidate(h) \/ HandleAccessToken(h) \/ HandleSignal(h)

\* No goroutine that is about to send on the completion channel waits for
\* room in it or for a receiver.
SendersNotBlocked ==
    /\ \A h \in PastGuard : ProcessRuns => ENABLED HandlerStep(h)
    /\ server = "spawned" => ENABLED ServerListen

\* The waiter takes a signal from the channel.
Consumes == pc = "wait" /\ Len(oauthComplete') < Len(oauthComplete)

\* C20: the completion channel never holds more than one signal; an
\* invocation of handleRedirect past the guard and the server goroutine can
\* always take their next step, whether the channel is full, empty, or no
\* longer read; a signal that waits in the channel stays until the waiter
\* takes it or a new handshake makes a new channel; and the waiter takes at
\* most one signal per handshake, the one offered first, which decides
\* between the save and the error.
C20_SignallingNeverBlocks ==
    /\ [](Len(oauthComplete) <= 1 /\ SendersNotBlocked)
    /\ [](Count("handshake_ok") + Count("handshake_err") <= Count("handshake"))
    /\ [][ /\ (Len(oauthComplete) = 1 /\ oauthComplete' # oauthComplete) =>
                 /\ oauthComplete' = << >>
                 /\ pc \in { "wait", "generate" }
           /\ Consumes =>
                 /\ pc' # "wait"
                 /\ pc' = "save" <=> Head(oauthComplete) = "nil" ]_vars

\* An invocation finished with 200 although the error of an earlier one was
\* still in the channel, which kept it.
C20_Witness ==
    /\ pc = "wait"
    /\ Len(oauthComplete) = 1 /\ oauthComplete[1] # "nil"
    /\ doneVerifying
    /\ \E h \in Handlers : handlers[h] = DoneHandler(200)

-----------------------------------------------------------------------------
(* Properties of cancellation, the storage file and the transport          *)

\* The select of generateDiscogsTokenWithContext returns.
SelectReturns == pc = "wait" /\ pc' # "wait"

\* What a handshake that failed leaves: the error of its phase, no client,
\* the listener closed, the file and the last identity request as they were,
\* and nothing done after the failure.
FailsCleanly ==
    /\ pc' = "returned"
    /\ result' = Returned(FALSE, HandshakeFailure)
    /\ server' = "closed"
    /\ file' = file
    /\ verifiedWith' = verifiedWith
    /\ log' = log \o << "handshake_err" >>

\* C21 as stated: whenever the select returns with the context done, the
\* handshake fails: NewWithContext returns the error of the phase and no
\* client, the listener is closed, nothing is saved and no identity is
\* requested.
C21_CancelledHandshakeFails ==
    [][ (SelectReturns /\ ctxDone) => FailsCleanly ]_vars

\* C21: whenever the select returns with the context done and no completion
\* signal in the channel, the handshake fails: NewWithContext returns the
\* error of the phase and no client, the listener is closed, nothing is
\* saved and no identity is requested.
C21_CancelledHandshakeFailsUnlessSignalled ==
    [][ (SelectReturns /\ ctxDone /\ Len(oauthComplete) = 0) => FailsCleanly ]_vars

\* The context ended during re-authentication, which failed.
C21_Witness ==
    /\ ctxDone
    /\ HandshakeFailed
    /\ phase = 2 /\ result.err = "re-authentication failed"
    /\ server = "closed"
    /\ Len(oauthComplete) = 0
    /\ Count("handshake_ok") = 1

\* The last n entries of the history after the step.
LogEndsWith(tail) ==
    /\ Len(log') >= Len(tail)
    /\ SubSeq(log', Len(log') - Len(tail) + 1, Len(log')) = tail

\* A step in which saveTokensSecurely wrote the file.
Writes == Count("write")' > Count("write")

\* A step that ends an identity check or ends a handshake with an error.
FailureStep ==
    \/ pc = "identity"
    \/ pc \in { "generate", "wait" } /\ pc' = "returned"

\* The save that followed the second handshake of the run wrote the file.
ReauthSaveWrote ==
    \E i \in 1..(Len(log) - 2) :
        /\ log[i] = "handshake_ok"
        /\ \E j \in 1..(i - 1) : log[j] = "handshake_ok"
        /\ log[i + 1] = "save" /\ log[i + 2] = "write"

Saves == Count("save")' > Count("save")

\* C23: a step in which NewWithContext calls saveTokensSecurely goes on to
\* the identity check with the pair in memory and the signing transport,
\* returns nothing and decides nothing, whether the save wrote the file or
\* returned an error; a save that returned an error leaves the file alone.
C23_FailedSaveNotFatal ==
    [][ Saves =>
          /\ pc' = "verify"
          /\ transport'
          /\ result' = result /\ ~result.returned
          /\ phase' = phase
          /\ token' = IF pc = "init" THEN MkToken(env.token, env.tokenSecret) ELSE token
          /\ ~Writes => file' = file ]_vars

\* Every save of the run failed and NewWithContext returned the client.
C23_Witness ==
    /\ Count("save") = 2 /\ Count("write") = 0
    /\ token # NoToken
    /\ result.returned /\ result.ok

\* C24: for a storage file that is missing or unreadable, that was written
\* under another consumer secret or cut short, or whose plaintext is not
\* JSON, loadTokensSecurely returns an error and no token, and NewWithContext
\* returns nothing: it takes the pair of the environment when both variables
\* are set and goes to the identity check, or goes to the handshake without
\* a token.
C24_UnreadableStorageSkipped ==
    [][ (pc = "init" /\ file \in UnreadableFiles) =>
          LET l == loadTokensSecurely(ReadFile(file), env.consumerSecretKey) IN
          /\ l.err /\ l.token = NoToken
          /\ ~result'.returned
          /\ log'[1] = "load_fail"
          /\ IF env.token # EmptyStr /\ env.tokenSecret # EmptyStr
                THEN pc' = "verify" /\ token' = MkToken(env.token, env.tokenSecret)
                ELSE pc' = "generate" /\ token' = NoToken ]_vars

\* NewWithContext found a file that decrypts to something that is not JSON
\* and went on to the handshake.
C24_Witness ==
    /\ pc = "generate"
    /\ file \in NotJsonFiles
    /\ log = << "load_fail" >>
    /\ token = NoToken


-----------------------------------------------------------------------------
(* Properties of the signing transport                                     *)

\* getIdentityWithContext hands its request to the transport.
SignsRequest == pc = "verify" /\ pc' = "identity"

\* The answer to the identity request reaches NewWithContext.
RequestAnswered == pc = "identity" /\ pc' # "identity"

\* C25: the transport is installed before the first request; a request is
\* signed with the token the client holds when it is sent, and the header
\* carries that token and the signature made of the consumer secret and that
\* token's secret; with no token nothing is sent, the request fails and no
\* identity is read; a client handed to the user interface holds a token.
C25_NoUnsignedRequest ==
    /\ [](pc \in {"verify", "identity"} => transport)
    /\ []((result.returned /\ result.ok) => token # NoToken)
    /\ [][ /\ SignsRequest =>
                /\ verifiedWith' = token
                /\ token # NoToken =>
                     /\ TransportRoundTrip(token, env).sent
                     /\ TransportRoundTrip(token, env).header =
                          << env.consumerKey, token.Token,
                             env.consumerSecretKey \o << 38 >> \o token.TokenSecret >>
           /\ (RequestAnswered /\ verifiedWith = NoToken) =>
                /\ log' = log \o << "verify_fail" >>
                /\ identity' = identity ]_vars

\* The identity request after a re-authentication that left no token was
\* refused by the transport.
C25_Witness ==
    /\ phase = 2
    /\ verifiedWith = NoToken
    /\ Count("handshake_ok") = 2
    /\ result = Returned(FALSE, "authentication still failing after re-auth")


-----------------------------------------------------------------------------
(* Properties of the card index and of the grid                            *)

\* C26: whenever the list of the selected source is not empty,
\* PreviewPosition[0] + PreviewPosition[1] is an index of it, and no key
\* handler has indexed a list out of range.
C26_CardIndexInRange ==
    /\ ~crashed
    /\ PrimsOf(SelectedSource).n > 0 =>
         /\ PrimIndex(PreviewPosition) >= 0
         /\ PrimIndex(PreviewPosition) < PrimsOf(SelectedSource).n


\* The index of the card DrawPreviewGrid put next to card i in the direction
\* of key k, in a grid of cols columns holding n cards; i itself when there
\* is no such card.
GridNeighbour(i, k, cols, n) ==
    IF k = "Down" THEN (IF i + cols < n THEN i + cols ELSE i)
    ELSE IF k = "Up" THEN (IF i - cols >= 0 THEN i - cols ELSE i)
    ELSE IF k = "Left" THEN (IF i % cols > 0 THEN i - 1 ELSE i)
    ELSE (IF i % cols < cols - 1 /\ i + 1 < n THEN i + 1 ELSE i)

\* A card of the selected source has the focus in the grid as drawn, and it
\* is the card of the current position.
CardFocused ==
    /\ AppRunning
    /\ Preview = GridItems(SelectedSource, PrimsOf(SelectedSource), NumOfCols)
    /\ PrimIndex(PreviewPosition) < PrimsOf(SelectedSource).n
    /\ focus = FocusCard(CardAt(SelectedSource, PrimIndex(PreviewPosition)))

\* C27: with card i focused, an arrow key puts the focus on the card drawn
\* next to it in that direction: i + cols below, i - cols above, i - 1 and
\* i + 1 in the same row; it stays on card i when there is none.
C27_ArrowsFollowGrid ==
    CardFocused =>
        \A k \in ArrowKeys :
            /\ ENABLED KeyArrow(k)
            /\ FocusAfterArrow(k) =
                  FocusCard(CardAt(SelectedSource,
                      GridNeighbour(PrimIndex(PreviewPosition), k, NumOfCols,
                                    PrimsOf(SelectedSource).n)))


\* The event loop runs the closure DrawPreviewGrid queued.
DrawRuns == DrawUpdate \in pending /\ DrawUpdate \notin pending'

\* C28: when the closure of DrawPreviewGrid has run, every item of the
\* preview is a card of the selected source, placed at row i div cols and
\* column i mod cols for its index i; each card of the list is there once
\* and no cell holds two; LastUpdated is the time of the draw.
C28_GridLayout ==
    [][ DrawRuns =>
          LET n == PrimsOf(SelectedSource).n IN
          /\ \A item \in Preview' :
                /\ item.card.src = SelectedSource
                /\ item.card.idx \in 0..(n - 1)
                /\ item.row = item.card.idx \div NumOfCols
                /\ item.column = item.card.idx % NumOfCols
          /\ \A i \in 0..(n - 1) :
                Cardinality({ item \in Preview' :
                                 item.card = CardAt(SelectedSource, i) }) = 1
          /\ \A a, b \in Preview' :
                (a.row = b.row /\ a.column = b.column) => a = b
          /\ LastUpdated' = now ]_vars

\* A wishlist of two cards has been drawn.
C28_Witness ==
    /\ SelectedSource = WishlistSource
    /\ WishlistPrims.n = 2 /\ CollectionPrims.n > 0
    /\ Cardinality(Preview) = 2
    /\ \A item \in Preview : item.card.src = WishlistSource
    /\ LastUpdated = now
    /\ DrawUpdate \notin pending


-----------------------------------------------------------------------------
(* Properties of the error policy of the load                              *)

\* The request for the list of src has just failed.
FetchFails(src) ==
    loadPc = LoadAt(src, "get") /\ fetched'[src].got /\ fetched'[src].err

-----------------------------------------------------------------------------
(* Properties of the start-up of the terminal UI                           *)

\* The load of New is still going on.
InitialLoadRuns == loaders["initial"].pc # "done"

\* The load of New returns with this step.
InitialLoadReturns == InitialLoadRuns /\ loaders'["initial"].pc = "done"

\* The load of New can return nil, and then its caller queues the draw.
CanSucceed ==
    ENABLED (LoadOrders("initial") /\ pending' = pending \cup { DrawUpdate })

\* The event loop runs the closure showError queued.
ErrorRuns == ErrorUpdate \in pending /\ ErrorUpdate \notin pending'

-----------------------------------------------------------------------------
(* Properties of the release mapping (SpecMap)                              *)

\* The value of the last note of a field id, the empty string when there is
\* none.
LastNoteValue(notes, id) ==
    LET at == { j \in 1..Len(notes) : notes[j].FieldId = id }
    IN  IF at = {} THEN << >>
        ELSE notes[CHOOSE j \in at : \A k \in at : k <= j].Value

\* Element i of the result is built from release i.
BuiltFrom(model, release) ==
    /\ model.Title = release.BasicInformation.Title
    /\ model.ThumbUrl = release.BasicInformation.Thumb
    /\ model.Rating = release.Rating
    /\ model.Year = release.BasicInformation.Year
    /\ Len(release.BasicInformation.Artists) > 0
          => model.Artist = release.BasicInformation.Artists[1].Name
    /\ Len(release.BasicInformation.Labels) > 0
          => model.Label = release.BasicInformation.Labels[1].Name

\* The collection mapping reads the conditions and the note from the notes
\* with field id 1, 2 and 3.
NotesByFieldId(model, release) ==
    /\ model.MediaCondition = LastNoteValue(release.Notes, 1)
    /\ model.SleeveCondition = LastNoteValue(release.Notes, 2)
    /\ model.Note = LastNoteValue(release.Notes, 3)

\* C31: whatever the list of releases (releases without artists, labels,
\* formats or notes included), a call of MapCollectionReleases or
\* MapWishlistReleases that has ended returned normally, with a nil error and
\* a list as long as its input whose element i is built from release i; the
\* collection mapping takes MediaCondition, SleeveCondition and Note from the
\* notes with field id 1, 2 and 3.
C31_MappingTotal ==
    mapOut.done =>
        /\ ~mapOut.panic
        /\ ~mapOut.err
        /\ Len(mapOut.data) = Len(mapIn.releases)
        /\ \A i \in 1..Len(mapIn.releases) :
              /\ BuiltFrom(mapOut.data[i], mapIn.releases[i])
              /\ mapIn.fn = "MapCollectionReleases"
                    => NotesByFieldId(mapOut.data[i], mapIn.releases[i])

\* The same for the calls whose releases all have an artist and a label:
\* those are the calls that return.
MappingOfCompleteReleases ==
    (mapOut.done /\ \A i \in 1..Len(mapIn.releases) : ~IndexPanics(mapIn.releases[i])) =>
        /\ ~mapOut.panic
        /\ ~mapOut.err
        /\ Len(mapOut.data) = Len(mapIn.releases)
        /\ \A i \in 1..Len(mapIn.releases) :
              /\ BuiltFrom(mapOut.data[i], mapIn.releases[i])
              /\ mapIn.fn = "MapCollectionReleases"
                    => NotesByFieldId(mapOut.data[i], mapIn.releases[i])

=============================================================================
